---- MODULE Spec2Model ----
(***************************************************************************)
(* Model of mdast-util-slice-markdown: the metadata-returning slice()      *)
(* with length()/findText(), and the strict sliceMarkdown() with           *)
(* getTreeLength()/findTextPositions()/getNodePosition().                  *)
(*                                                                         *)
(* A node is a record.  Object identity is the field oid: the nodes of the *)
(* caller's tree carry distinct positive oids, an object the library       *)
(* allocates ({...node}, Object.assign({}, ...)) carries oid 0.  A string   *)
(* is a sequence of one-character strings.                                 *)
(***************************************************************************)
EXTENDS Integers, Sequences, FiniteSets, TLC

VARIABLES tree, op, args, ret, lengthCache, NODE_LENGTH_CACHE

vars == <<tree, op, args, ret, lengthCache, NODE_LENGTH_CACHE>>

(* ------------------------------ bounds -------------------------------- *)

\* longest value drawn for the free leaf of an input tree
MaxValLen == 2

\* how far past the tree's length the start and end arguments range
Beyond == 1

\* the longest searchText argument
MaxNeedleLen == 3

(* ------------------------------ strings ------------------------------- *)

Chars == {"a", " "}

isSpace(c) == c = " "

RECURSIVE trimStart(_)
trimStart(s) ==
  IF s # <<>> /\ isSpace(Head(s)) THEN trimStart(Tail(s)) ELSE s

RECURSIVE trimEnd(_)
trimEnd(s) ==
  IF s # <<>> /\ isSpace(s[Len(s)]) THEN trimEnd(SubSeq(s, 1, Len(s) - 1)) ELSE s

trim(s) == trimEnd(trimStart(s))

\* value.replace(/\s+/g, ' ')
RECURSIVE normalizeSpace(_)
normalizeSpace(s) ==
  IF s = <<>> THEN <<>>
  ELSE IF isSpace(Head(s))
       THEN <<" ">> \o normalizeSpace(trimStart(s))
       ELSE <<Head(s)>> \o normalizeSpace(Tail(s))

\* String.prototype.slice(a, b) for integers 0 <= a, 0 <= b
StrSlice(s, a, b) ==
  LET lo == IF a > Len(s) THEN Len(s) ELSE a
      hi == IF b > Len(s) THEN Len(s) ELSE b
  IN  IF hi <= lo THEN <<>> ELSE SubSeq(s, lo + 1, hi)

\* what String(undefined) appends when a missing value is concatenated
UndefinedStr == <<"u", "n", "d", "e", "f", "i", "n", "e", "d">>

Max(a, b) == IF a >= b THEN a ELSE b
Min(a, b) == IF a <= b THEN a ELSE b

(* ------------------------------- nodes -------------------------------- *)

Node(t, id, hv, v, hc, cs, at) ==
  [type |-> t, oid |-> id, hasValue |-> hv, value |-> v,
   hasChildren |-> hc, children |-> cs, attr |-> at]

\* the argument null / undefined
NullNode == Node("null", 0, FALSE, <<>>, FALSE, <<>>, "")

IsNull(n) == n.type = "null"

Leaf(t, id, v, at) == Node(t, id, TRUE, v, FALSE, <<>>, at)
Atom(t, id, at) == Node(t, id, FALSE, <<>>, FALSE, <<>>, at)
Parent(t, id, cs, at) == Node(t, id, FALSE, <<>>, TRUE, cs, at)

\* a result of type Node | Node[] | null
ResNull == [kind |-> "null", nodes |-> <<>>]
ResNode(n) == [kind |-> "node", nodes |-> <<n>>]
ResArray(ns) == [kind |-> "array", nodes |-> ns]

\* { ...node }: a new object with the fields of node
Spread(n) == [n EXCEPT !.oid = 0]

\* a new object that takes only the type of node and the value
SpreadValue_typeAndValueOnly(n, v) ==
  [n EXCEPT !.oid = 0, !.hasValue = TRUE, !.value = v, !.attr = ""]

\* { ...node, value: v }
SpreadValue(n, v) == [n EXCEPT !.oid = 0, !.hasValue = TRUE, !.value = v]

\* { ...node, children: cs }
SpreadChildren(n, cs) == [n EXCEPT !.oid = 0, !.hasChildren = TRUE, !.children = cs]

(* --------------------- slice(): type guards, length ------------------- *)

isParent(n) == n.hasChildren
isText(n) == n.type = "text"
isCode(n) == n.type = "code"
isInlineCode(n) == n.type = "inlineCode"
isFormatting(n) == n.type \in {"emphasis", "strong", "delete", "underline"}
isMedia(n) == n.type \in {"link", "linkReference", "image", "imageReference"}
isBlock(n) == n.type \in {"paragraph", "heading", "blockquote", "listItem"}

\* the number NaN as the value of a node, which undefined + undefined yields
NaNValue == <<"NaN">>

\* if (node.value): the value is present, not the empty string and not NaN
truthyValue(n) == n.hasValue /\ n.value # <<>> /\ n.value # NaNValue

RECURSIVE calculateLength(_)
RECURSIVE calculateLengthSum(_, _)
calculateLength(n) ==
  IF truthyValue(n) THEN Len(n.value)
  ELSE IF isParent(n) THEN calculateLengthSum(n.children, 1)
  ELSE 0

calculateLengthSum(kids, i) ==
  IF i > Len(kids) THEN 0
  ELSE calculateLength(kids[i]) + calculateLengthSum(kids, i + 1)

\* getLength's return value under the cache contents `cache` (oid -> length)
getLength(cache, n) ==
  IF IsNull(n) THEN 0
  ELSE IF n.oid \in DOMAIN cache THEN cache[n.oid]
  ELSE calculateLength(n)

\* the entry written with the length of the node's own value, its
\* children left out
lengthCacheSet_valueOnly(cache, n) ==
  IF IsNull(n) \/ n.oid = 0 \/ n.oid \in DOMAIN cache THEN cache
  ELSE cache @@ (n.oid :> IF truthyValue(n) THEN Len(n.value) ELSE 0)

\* the cache after getLength(n); the entry keyed by an object allocated
\* during the call (oid 0) is reachable through that object alone and is
\* not recorded
lengthCacheSet(cache, n) ==
  IF IsNull(n) \/ n.oid = 0 \/ n.oid \in DOMAIN cache THEN cache
  ELSE cache @@ (n.oid :> calculateLength(n))

(* ------------------------- slice(): configuration --------------------- *)

\* a field that a SliceConfig leaves out reads as undefined
Undef == "undef"

DEFAULT_CONFIG ==
  [partialNodes |-> [text |-> "truncate", code |-> "truncate",
                     inlineCode |-> "truncate", formatting |-> "preserve",
                     media |-> "preserve", blocks |-> "include"],
   textHandling |-> [boundaries |-> "trim", mergeAdjacent |-> "true"]]

\* { ...DEFAULT_CONFIG, ...config }: a group the caller gives replaces the
\* default group as a whole
resolvedConfig(config) ==
  [partialNodes |-> IF config.hasPartialNodes THEN config.partialNodes
                    ELSE DEFAULT_CONFIG.partialNodes,
   textHandling |-> IF config.hasTextHandling THEN config.textHandling
                    ELSE DEFAULT_CONFIG.textHandling]

\* config.partialNodes[node.type] ?? config.partialNodes.text
leafBehavior(config, type) ==
  LET pn == config.partialNodes
      own == IF type = "text" THEN pn.text
             ELSE IF type = "code" THEN pn.code
             ELSE IF type = "inlineCode" THEN pn.inlineCode
             ELSE Undef
  IN  IF own # Undef THEN own ELSE pn.text

\* an array push in place of Set.prototype.add
SetAdd_push(seq, x) == Append(seq, x)

\* Set.prototype.add on the insertion-ordered modifiedNodeTypes
SetAdd(seq, x) ==
  IF \E i \in 1..Len(seq) : seq[i] = x THEN seq ELSE Append(seq, x)

\* context.info.hasPartialNodes = true; modifiedNodeTypes.add(node.type)
markPartial(st, n) ==
  [st EXCEPT !.hasPartialNodes = TRUE,
             !.modifiedNodeTypes = SetAdd(st.modifiedNodeTypes, n.type)]

(* ----------------------------- slice(): leaves ------------------------ *)

\* A record kept beside the state of the walk, which the walk never reads:
\* the nodes sliceNode was called for, each with the nodeStart it was given
noteResolved(st, n, nodeStart) ==
  [st EXCEPT !.visits = Append(@, [oid |-> n.oid, nodeStart |-> nodeStart])]

\* the boundary handling of a truncated value (lines 399-417)
applyBoundaries(n, slicedValue, nodeStart, nodeEnd, ctx) ==
  IF isInlineCode(n) \/ isCode(n) THEN slicedValue
  ELSE IF ctx.config.textHandling.boundaries = "trim"
       THEN LET isAtStart == nodeStart = ctx.start
                isAtEnd == nodeEnd = ctx.end
            IN  IF ~isAtStart /\ ~isAtEnd THEN trim(slicedValue)
                ELSE IF ~isAtStart THEN trimStart(slicedValue)
                ELSE IF ~isAtEnd THEN trimEnd(slicedValue)
                ELSE slicedValue
  ELSE IF ctx.config.textHandling.boundaries = "normalize"
       THEN normalizeSpace(slicedValue)
  ELSE slicedValue

\* sliceBounds with the end of the range taken as an offset into the value
sliceBounds_absoluteEnd(n, nodeStart, ctx) ==
  [sliceStart |-> Max(0, ctx.start - nodeStart),
   sliceEnd |-> Min(Len(n.value), ctx.end)]

\* sliceStart and sliceEnd of a truncated value (lines 395-396)
sliceBounds(n, nodeStart, ctx) ==
  [sliceStart |-> Max(0, ctx.start - nodeStart),
   sliceEnd |-> Min(Len(n.value), ctx.end - nodeStart)]

sliceNodeWithValue(n, nodeStart, ctx, st) ==
  LET nodeEnd == nodeStart + Len(n.value)
      behavior == leafBehavior(ctx.config, n.type)
      b == sliceBounds(n, nodeStart, ctx)
      slicedValue == applyBoundaries(n, StrSlice(n.value, b.sliceStart, b.sliceEnd),
                                     nodeStart, nodeEnd, ctx)
  IN  IF nodeEnd <= ctx.start \/ nodeStart >= ctx.end
        THEN [res |-> ResNull, st |-> st]
      ELSE IF nodeStart >= ctx.start /\ nodeEnd <= ctx.end
        THEN [res |-> ResNode(Spread(n)), st |-> st]
      ELSE IF behavior = "include-full"
        THEN [res |-> ResNode(Spread(n)), st |-> markPartial(st, n)]
      ELSE IF behavior = "exclude-full"
        THEN [res |-> ResNull, st |-> markPartial(st, n)]
      ELSE IF Len(slicedValue) > 0
        THEN [res |-> ResNode(SpreadValue(n, slicedValue)), st |-> markPartial(st, n)]
      ELSE [res |-> ResNull, st |-> markPartial(st, n)]

(* ------------------------- slice(): merging text ---------------------- *)

\* the string a value contributes to `last.value + node.value` when the
\* other operand is a string
concatValue(n) ==
  IF ~n.hasValue THEN UndefinedStr
  ELSE IF n.value = NaNValue THEN <<"N", "a", "N">>
  ELSE n.value

\* the merged value taken from the first node alone
plusValue_lastOnly(last, n) == concatValue(last)

\* last.value + node.value: a number (NaN) when neither operand is a string
plusValue(last, n) ==
  IF (~last.hasValue \/ last.value = NaNValue) /\ (~n.hasValue \/ n.value = NaNValue)
  THEN NaNValue
  ELSE concatValue(last) \o concatValue(n)

RECURSIVE mergeAdjacentTextFrom(_, _, _)
mergeAdjacentTextFrom(nodes, i, result) ==
  IF i > Len(nodes) THEN result
  ELSE LET n == nodes[i]
           k == Len(result)
       IN  IF k > 0 /\ isText(result[k]) /\ isText(n)
           THEN mergeAdjacentTextFrom(nodes, i + 1,
                  [result EXCEPT ![k] =
                     SpreadValue(result[k], plusValue(result[k], n))])
           ELSE mergeAdjacentTextFrom(nodes, i + 1, Append(result, n))

mergeAdjacentText(nodes) == mergeAdjacentTextFrom(nodes, 1, <<>>)


(* ----------------------- slice(): containers, dispatch ---------------- *)

\* getLength(node) as a step of the walk: the value read and the cache after
cachedLength(st, n) == getLength(st.cache, n)
afterGetLength(st, n) == [st EXCEPT !.cache = lengthCacheSet(st.cache, n)]

\* slicedParent ? slicedParent.children : null
childrenOf(r) ==
  IF r.res.kind = "node"
  THEN [res |-> ResArray(r.res.nodes[1].children), st |-> r.st]
  ELSE [res |-> ResNull, st |-> r.st]

RECURSIVE sliceNode(_, _, _, _)
RECURSIVE sliceParent(_, _, _, _)
RECURSIVE sliceParentLoop(_, _, _, _, _, _)
RECURSIVE sliceFormatting(_, _, _, _)
RECURSIVE sliceMedia(_, _, _, _)
RECURSIVE sliceBlock(_, _, _, _)

\* isParent(node) ? sliceParent(node, nodeStart, context) : { ...node }
parentOrCopy(n, nodeStart, ctx, st) ==
  IF isParent(n) THEN sliceParent(n, nodeStart, ctx, st)
  ELSE [res |-> ResNode(Spread(n)), st |-> st]

sliceFormatting(n, nodeStart, ctx, st0) ==
  LET nodeLength == cachedLength(st0, n)
      st == afterGetLength(st0, n)
      nodeEnd == nodeStart + nodeLength
      behavior == ctx.config.partialNodes.formatting
  IN  IF nodeEnd <= ctx.start \/ nodeStart >= ctx.end
        THEN [res |-> ResNull, st |-> st]
      ELSE IF nodeStart >= ctx.start /\ nodeEnd <= ctx.end
        THEN parentOrCopy(n, nodeStart, ctx, st)
      ELSE IF behavior = "strip"
        THEN IF isParent(n)
             THEN childrenOf(sliceParent(n, nodeStart, ctx, markPartial(st, n)))
             ELSE [res |-> ResNull, st |-> markPartial(st, n)]
      ELSE IF behavior = "extend"
        THEN parentOrCopy(n, nodeStart, ctx, markPartial(st, n))
      ELSE parentOrCopy(n, nodeStart, ctx, markPartial(st, n))

sliceMedia(n, nodeStart, ctx, st0) ==
  LET nodeLength == cachedLength(st0, n)
      st == afterGetLength(st0, n)
      nodeEnd == nodeStart + nodeLength
      behavior == ctx.config.partialNodes.media
  IN  IF nodeEnd <= ctx.start \/ nodeStart >= ctx.end
        THEN [res |-> ResNull, st |-> st]
      ELSE IF nodeStart >= ctx.start /\ nodeEnd <= ctx.end
        THEN parentOrCopy(n, nodeStart, ctx, st)
      ELSE IF behavior = "strip"
        THEN [res |-> ResNull, st |-> markPartial(st, n)]
      ELSE IF behavior = "content-only"
        THEN IF isParent(n)
             THEN childrenOf(sliceParent(n, nodeStart, ctx, markPartial(st, n)))
             ELSE [res |-> ResNull, st |-> markPartial(st, n)]
      ELSE parentOrCopy(n, nodeStart, ctx, markPartial(st, n))

sliceBlock(n, nodeStart, ctx, st0) ==
  LET nodeLength == cachedLength(st0, n)
      st == afterGetLength(st0, n)
      nodeEnd == nodeStart + nodeLength
      behavior == ctx.config.partialNodes.blocks
  IN  IF nodeEnd <= ctx.start \/ nodeStart >= ctx.end
        THEN [res |-> ResNull, st |-> st]
      ELSE IF nodeStart >= ctx.start /\ nodeEnd <= ctx.end
        THEN parentOrCopy(n, nodeStart, ctx, st)
      ELSE IF behavior = "exclude"
        THEN [res |-> ResNull, st |-> markPartial(st, n)]
      ELSE IF behavior = "unwrap"
        THEN IF isParent(n)
             THEN childrenOf(sliceParent(n, nodeStart, ctx, markPartial(st, n)))
             ELSE [res |-> ResNull, st |-> markPartial(st, n)]
      ELSE parentOrCopy(n, nodeStart, ctx, markPartial(st, n))

\* sliceParentLoop that counts one separator character after every child
sliceParentLoop_separator(kids, i, childPosition, ctx, st, children) ==
  IF i > Len(kids) THEN [children |-> children, st |-> st]
  ELSE LET r == sliceNode(kids[i], childPosition, ctx, st)
           childLength == cachedLength(r.st, kids[i])
           st2 == afterGetLength(r.st, kids[i])
           pushed == IF r.res.kind = "null" THEN children
                     ELSE children \o r.res.nodes
       IN  sliceParentLoop(kids, i + 1, childPosition + childLength + 1, ctx, st2, pushed)

\* the for loop of sliceParent from child i on: the children pushed so far
\* are `children`, the running offset is childPosition
sliceParentLoop(kids, i, childPosition, ctx, st, children) ==
  IF i > Len(kids) THEN [children |-> children, st |-> st]
  ELSE LET r == sliceNode(kids[i], childPosition, ctx, st)
           childLength == cachedLength(r.st, kids[i])
           st2 == afterGetLength(r.st, kids[i])
           pushed == IF r.res.kind = "null" THEN children
                     ELSE children \o r.res.nodes
       IN  sliceParentLoop(kids, i + 1, childPosition + childLength, ctx, st2, pushed)

sliceParent(n, nodeStart, ctx, st) ==
  LET loop == sliceParentLoop(n.children, 1, nodeStart, ctx, st, <<>>)
      finalChildren == IF ctx.config.textHandling.mergeAdjacent = "true"
                       THEN mergeAdjacentText(loop.children)
                       ELSE loop.children
  IN  IF Len(finalChildren) = 0
      THEN [res |-> ResNull, st |-> loop.st]
      ELSE [res |-> ResNode(SpreadChildren(n, finalChildren)), st |-> loop.st]

sliceNode(n, nodeStart, ctx, st0) ==
  LET st == noteResolved(st0, n, nodeStart)
  IN  IF truthyValue(n) THEN sliceNodeWithValue(n, nodeStart, ctx, st)
      ELSE IF isFormatting(n) THEN sliceFormatting(n, nodeStart, ctx, st)
      ELSE IF isMedia(n) THEN sliceMedia(n, nodeStart, ctx, st)
      ELSE IF isBlock(n) THEN sliceBlock(n, nodeStart, ctx, st)
      ELSE IF isParent(n) THEN sliceParent(n, nodeStart, ctx, st)
      ELSE LET nodeLength == cachedLength(st, n)
               nodeEnd == nodeStart + nodeLength
               overlaps == nodeEnd > ctx.start /\ nodeStart < ctx.end
           IN  [res |-> IF overlaps THEN ResNode(Spread(n)) ELSE ResNull,
                st |-> afterGetLength(st, n)]

(* ------------------------------- slice() ------------------------------ *)

\* the optional end argument: a number, or left out (undefined)
EndAt(e) == [given |-> TRUE, n |-> e]
NoEnd == [given |-> FALSE, n |-> 0]

SliceResult(node, s, e, orig, sliced, partial, types) ==
  [node |-> node,
   boundaries |-> [start |-> s, end |-> e],
   info |-> [originalLength |-> orig, slicedLength |-> sliced,
             hasPartialNodes |-> partial, modifiedNodeTypes |-> types]]

\* the guard without the test of start
invalidInput_nullOnly(t, start) == IsNull(t)

\* if (!tree || start < 0)
invalidInput(t, start) == IsNull(t) \/ start < 0

\* actualEnd without the clamp to the length of the tree
actualEndOf_unclamped(end, originalLength) ==
  IF end.given THEN end.n ELSE originalLength

\* end !== undefined ? Math.min(end, originalLength) : originalLength
actualEndOf(end, originalLength) ==
  IF end.given THEN Min(end.n, originalLength) ELSE originalLength

\* slicedLength read from the value of the final node alone
slicedLengthOf_valueOnly(cache, finalNode) ==
  IF truthyValue(finalNode) THEN Len(finalNode.value) ELSE 0

\* finalNode ? getLength(finalNode) : 0
slicedLengthOf(cache, finalNode) ==
  IF IsNull(finalNode) THEN 0 ELSE getLength(cache, finalNode)

\* finalNode that keeps the first node of an array result
finalNodeOf_firstOfArray(res) ==
  IF res.kind = "null" THEN NullNode ELSE res.nodes[1]

\* Array.isArray(result) ? null : result
finalNodeOf(res) == IF res.kind = "node" THEN res.nodes[1] ELSE NullNode

\* slice(tree, start, end, config) called with the cache contents `cache`:
\* the SliceResult returned and the cache contents afterwards
slice(t, start, end, config, cache) ==
  IF invalidInput(t, start)
  THEN [result |-> SliceResult(NullNode, 0, 0, 0, 0, FALSE, <<>>), cache |-> cache]
  ELSE
    LET originalLength == getLength(cache, t)
        cache1 == lengthCacheSet(cache, t)
        actualEnd == actualEndOf(end, originalLength)
    IN  IF start >= actualEnd
        THEN [result |-> SliceResult(NullNode, start, actualEnd, originalLength, 0,
                                     FALSE, <<>>),
              cache |-> cache1]
        ELSE
          LET context == [start |-> start, end |-> actualEnd,
                          config |-> resolvedConfig(config)]
              r == sliceNode(t, 0, context,
                             [hasPartialNodes |-> FALSE, modifiedNodeTypes |-> <<>>,
                              cache |-> cache1, visits |-> <<>>])
              finalNode == finalNodeOf(r.res)
          IN  [result |-> SliceResult(finalNode, start, actualEnd, originalLength,
                                      slicedLengthOf(r.st.cache, finalNode),
                                      r.st.hasPartialNodes, r.st.modifiedNodeTypes),
               cache |-> r.st.cache]

\* length(tree)
length(t, cache) == [result |-> getLength(cache, t), cache |-> lengthCacheSet(cache, t)]


(* ============================ sliceMarkdown ============================ *)

DEFAULT_BEHAVIOR ==
  [link |-> "content", emphasis |-> "content", strong |-> "content",
   delete |-> "content", inlineCode |-> "preserve", code |-> "preserve",
   image |-> "preserve", imageReference |-> "preserve", linkReference |-> "content"]

PARENT_TYPES == {"root", "paragraph", "heading", "blockquote", "listItem"}
FORMATTING_TYPES == {"emphasis", "strong", "delete", "link", "linkReference"}
ATOMIC_TYPES == {"break", "thematicBreak"}
IMAGE_TYPES == {"image", "imageReference"}

\* 'children' in node
mdIsParent(n) == n.hasChildren

\* getNodeLength reads node.type, and node.value.length of a text, inlineCode
\* or code node: a TypeError when the node is null or the value is missing
RECURSIVE getNodeLengthThrows(_, _)
getNodeLengthThrows(cache, n) ==
  IF n.oid # 0 /\ n.oid \in DOMAIN cache THEN FALSE
  ELSE IF IsNull(n) THEN TRUE
  ELSE IF n.type \in {"text", "inlineCode", "code"} THEN ~n.hasValue
  ELSE IF mdIsParent(n)
       THEN \E i \in 1..Len(n.children) : getNodeLengthThrows(cache, n.children[i])
  ELSE FALSE

RECURSIVE getNodeLength(_, _)
RECURSIVE getNodeLengthSum(_, _, _)
getNodeLength(cache, n) ==
  IF n.oid # 0 /\ n.oid \in DOMAIN cache THEN cache[n.oid]
  ELSE IF n.type = "text" \/ n.type = "inlineCode" THEN Len(n.value)
  ELSE IF n.type = "code" THEN Len(n.value)
  ELSE IF mdIsParent(n) THEN getNodeLengthSum(cache, n.children, 1)
  ELSE 0

getNodeLengthSum(cache, kids, i) ==
  IF i > Len(kids) THEN 0
  ELSE getNodeLength(cache, kids[i]) + getNodeLengthSum(cache, kids, i + 1)

\* NODE_LENGTH_CACHE after getNodeLength(n): n and every node the recursion
\* reached are entered
RECURSIVE nodeLengthCacheSet(_, _)
RECURSIVE nodeLengthCacheSetAll(_, _, _)
nodeLengthCacheSet(cache, n) ==
  IF n.oid = 0 \/ n.oid \in DOMAIN cache THEN cache
  ELSE LET below == IF n.type \notin {"text", "inlineCode", "code"} /\ mdIsParent(n)
                    THEN nodeLengthCacheSetAll(cache, n.children, 1)
                    ELSE cache
       IN  below @@ (n.oid :> getNodeLength(cache, n))

nodeLengthCacheSetAll(cache, kids, i) ==
  IF i > Len(kids) THEN cache
  ELSE nodeLengthCacheSetAll(nodeLengthCacheSet(cache, kids[i]), kids, i + 1)

\* a number argument: n, or n + 1/2 when half
Num(n) == [n |-> n, half |-> FALSE]
NumHalf(n) == [n |-> n, half |-> TRUE]
MdEndAt(x) == [given |-> TRUE, n |-> x.n, half |-> x.half]
MdNoEnd == [given |-> FALSE, n |-> 0, half |-> FALSE]
Twice(x) == 2 * x.n + (IF x.half THEN 1 ELSE 0)
isInteger(x) == ~x.half

\* Object.assign({}, DEFAULT_BEHAVIOR, options.behavior) and the ?? defaults
resolvedOptions(options) ==
  [behavior |-> [k \in DOMAIN DEFAULT_BEHAVIOR |->
                   IF options.behavior[k] # Undef THEN options.behavior[k]
                   ELSE DEFAULT_BEHAVIOR[k]],
   preserveBlocks |-> IF options.preserveBlocks # Undef
                      THEN options.preserveBlocks = "true" ELSE TRUE,
   trimWhitespace |-> IF options.trimWhitespace # Undef
                      THEN options.trimWhitespace = "true" ELSE FALSE]

\* Object.assign({}, node, { value: v })
AssignValue(n, v) == [n EXCEPT !.oid = 0, !.hasValue = TRUE, !.value = v]

\* Object.assign(node, { children: cs }): the children written into node itself
AssignChildren_inPlace(n, cs) == [n EXCEPT !.hasChildren = TRUE, !.children = cs]

\* Object.assign({}, node, { children: cs })
AssignChildren(n, cs) == [n EXCEPT !.oid = 0, !.hasChildren = TRUE, !.children = cs]

\* sliceText (lines 271-311); env holds start, effectiveEnd and the options
sliceText(n, nodeStart, nodeEnd, env) ==
  LET value == n.value
      sliceStart == Max(0, env.start - nodeStart)
      sliceEnd == Min(Len(value), env.effectiveEnd - nodeStart)
      cut == StrSlice(value, sliceStart, sliceEnd)
      isAtStart == nodeStart >= env.start
      isAtEnd == nodeEnd <= env.effectiveEnd
      slicedValue == IF env.options.trimWhitespace /\ cut # <<>>
                     THEN IF ~isAtStart /\ ~isAtEnd THEN cut
                          ELSE IF ~isAtStart THEN trimStart(cut)
                          ELSE IF ~isAtEnd THEN trimEnd(cut)
                          ELSE cut
                     ELSE cut
  IN  IF nodeEnd <= env.start \/ nodeStart >= env.effectiveEnd THEN ResNull
      ELSE IF Len(value) = 0
        THEN IF nodeStart >= env.start /\ nodeEnd <= env.effectiveEnd
             THEN ResNode(n) ELSE ResNull
      ELSE IF Len(slicedValue) = 0 /\ Len(value) > 0 THEN ResNull
      ELSE ResNode(AssignValue(n, slicedValue))

\* sliceInlineCode and sliceCodeBlock have the same body but for the option read
sliceCodeLike(n, behavior, nodeStart, nodeEnd, env) ==
  LET isPartial == nodeStart < env.start \/ nodeEnd > env.effectiveEnd
      value == n.value
      sliceStart == Max(0, env.start - nodeStart)
      sliceEnd == Min(Len(value), env.effectiveEnd - nodeStart)
  IN  IF nodeEnd <= env.start \/ nodeStart >= env.effectiveEnd THEN ResNull
      ELSE IF ~isPartial \/ behavior = "preserve" THEN ResNode(n)
      ELSE IF behavior = "exclude" THEN ResNull
      ELSE IF Len(value) = 0 THEN ResNode(n)
      ELSE ResNode(AssignValue(n, StrSlice(value, sliceStart, sliceEnd)))

sliceInlineCode(n, nodeStart, nodeEnd, env) ==
  sliceCodeLike(n, env.options.behavior.inlineCode, nodeStart, nodeEnd, env)

sliceCodeBlock(n, nodeStart, nodeEnd, env) ==
  sliceCodeLike(n, env.options.behavior.code, nodeStart, nodeEnd, env)

sliceImageNode(n, nodeStart, nodeEnd, env) ==
  LET behavior == env.options.behavior[n.type]
      isPartial == nodeStart < env.start \/ nodeEnd > env.effectiveEnd
  IN  IF nodeEnd <= env.start \/ nodeStart >= env.effectiveEnd THEN ResNull
      ELSE IF ~isPartial \/ behavior = "preserve" THEN ResNode(n)
      ELSE ResNull

\* an atomic node kept only when it has a length
sliceAtomicNode_nonEmptyOnly(n, nodeStart, nodeEnd, env) ==
  IF nodeEnd > nodeStart /\ nodeEnd > env.start /\ nodeStart < env.effectiveEnd
  THEN ResNode(n) ELSE ResNull

sliceAtomicNode(n, nodeStart, nodeEnd, env) ==
  IF nodeEnd > env.start /\ nodeStart < env.effectiveEnd THEN ResNode(n) ELSE ResNull


\* The closures of sliceMarkdown share `position`; st holds it together with
\* NODE_LENGTH_CACHE, and every closure returns its result and the new st.
\* an empty block dropped whatever preserveBlocks says
emptyBlockDropped_always(slicedChildren, options) == Len(slicedChildren) = 0

\* if (slicedChildren.length === 0 && !resolvedOptions.preserveBlocks)
emptyBlockDropped(slicedChildren, options) ==
  Len(slicedChildren) = 0 /\ ~options.preserveBlocks

RECURSIVE mdSlice(_, _, _)
RECURSIVE sliceByType(_, _, _, _, _)
RECURSIVE mdSliceParent(_, _, _, _)
RECURSIVE mdSliceParentLoop(_, _, _, _, _)
RECURSIVE sliceList(_, _, _, _)
RECURSIVE sliceFormattingNode(_, _, _, _, _)

\* A record kept beside the state of the walk, which the walk never reads:
\* the nodes slice(node) was called for, each with its nodeStart and the
\* value of position when the call returned
noteReturned(st, n, nodeStart) ==
  [st EXCEPT !.visits = Append(@, [oid |-> n.oid, nodeStart |-> nodeStart,
                                   position |-> st.position])]

\* a skipped node that leaves position where it was
skippedPosition_unmoved(nodeStart, nodeEnd) == nodeStart

\* position = nodeEnd, for a node outside the range
skippedPosition(nodeStart, nodeEnd) == nodeEnd

\* function slice(node) (lines 153-168)
mdSlice(n, env, st) ==
  LET nodeStart == st.position
      nodeLength == getNodeLength(st.cache, n)
      st1 == [st EXCEPT !.cache = nodeLengthCacheSet(st.cache, n)]
      nodeEnd == nodeStart + nodeLength
  IN  IF nodeEnd <= env.start \/ nodeStart >= env.effectiveEnd
      THEN [res |-> ResNull,
            st |-> noteReturned([st1 EXCEPT !.position = skippedPosition(nodeStart, nodeEnd)],
                                n, nodeStart)]
      ELSE LET r == sliceByType(n, nodeStart, nodeEnd, env, st1)
           IN  [res |-> r.res,
                st |-> noteReturned([r.st EXCEPT !.position = nodeEnd], n, nodeStart)]

sliceByType(n, nodeStart, nodeEnd, env, st) ==
  LET type == n.type
  IN  IF type = "text" THEN [res |-> sliceText(n, nodeStart, nodeEnd, env), st |-> st]
      ELSE IF type \in PARENT_TYPES THEN mdSliceParent(n, nodeStart, env, st)
      ELSE IF type = "list" THEN sliceList(n, nodeStart, env, st)
      ELSE IF type \in FORMATTING_TYPES
        THEN sliceFormattingNode(n, nodeStart, nodeEnd, env, st)
      ELSE IF type = "inlineCode"
        THEN [res |-> sliceInlineCode(n, nodeStart, nodeEnd, env), st |-> st]
      ELSE IF type = "code"
        THEN [res |-> sliceCodeBlock(n, nodeStart, nodeEnd, env), st |-> st]
      ELSE IF type \in IMAGE_TYPES
        THEN [res |-> sliceImageNode(n, nodeStart, nodeEnd, env), st |-> st]
      ELSE IF type \in ATOMIC_TYPES
        THEN [res |-> sliceAtomicNode(n, nodeStart, nodeEnd, env), st |-> st]
      ELSE IF mdIsParent(n) THEN mdSliceParent(n, nodeStart, env, st)
      ELSE [res |-> ResNull, st |-> st]

\* the for loop of sliceParent (lines 236-246) from child i on
mdSliceParentLoop(kids, i, env, st, slicedChildren) ==
  IF i > Len(kids) THEN [children |-> slicedChildren, st |-> st]
  ELSE LET r == mdSlice(kids[i], env, st)
           pushed == IF r.res.kind = "null" THEN slicedChildren
                     ELSE slicedChildren \o r.res.nodes
       IN  mdSliceParentLoop(kids, i + 1, env, r.st, pushed)

\* function sliceParent(node, nodeStart) (lines 228-257)
mdSliceParent(n, nodeStart, env, st) ==
  LET savedPosition == st.position
      loop == mdSliceParentLoop(n.children, 1, env,
                                [st EXCEPT !.position = nodeStart], <<>>)
      st2 == [loop.st EXCEPT !.position = savedPosition]
  IN  IF emptyBlockDropped(loop.children, env.options)
      THEN [res |-> ResNull, st |-> st2]
      ELSE [res |-> ResNode(AssignChildren(n, loop.children)), st |-> st2]

\* result?.children.length ? result : null
sliceList(n, nodeStart, env, st) ==
  LET r == mdSliceParent(n, nodeStart, env, st)
  IN  IF r.res.kind = "node" /\ Len(r.res.nodes[1].children) > 0
      THEN r ELSE [res |-> ResNull, st |-> r.st]

sliceFormattingNode(n, nodeStart, nodeEnd, env, st) ==
  LET behavior == env.options.behavior[n.type]
      overlapsStart == nodeStart < env.effectiveEnd /\ nodeEnd > env.start
      isPartial == nodeStart < env.start \/ nodeEnd > env.effectiveEnd
  IN  IF ~overlapsStart THEN [res |-> ResNull, st |-> st]
      ELSE IF ~isPartial \/ behavior = "preserve" \/ behavior = "content"
        THEN mdSliceParent(n, nodeStart, env, st)
      ELSE IF behavior = "exclude" THEN [res |-> ResNull, st |-> st]
      ELSE IF behavior = "trim"
        THEN LET r == mdSliceParent(n, nodeStart, env, st)
             IN  IF r.res.kind = "node"
                 THEN [res |-> ResArray(r.res.nodes[1].children), st |-> r.st]
                 ELSE [res |-> ResNull, st |-> r.st]
      ELSE mdSliceParent(n, nodeStart, env, st)

\* what a call of sliceMarkdown does: return a value or throw an Error
Returned(res) == [kind |-> "return", res |-> res, error |-> ""]
Thrown(msg) == [kind |-> "throw", res |-> ResNull, error |-> msg]

\* effectiveEnd without the clamp to the length of the tree
effectiveEndOf_unclamped(normalizedEnd, treeLength) == normalizedEnd.n

\* Math.min(normalizedEnd, treeLength)
effectiveEndOf(normalizedEnd, treeLength) == Min(normalizedEnd.n, treeLength)

\* sliceMarkdown(tree, start, end, options) called with the cache contents
\* `cache`: the outcome, and the cache contents afterwards
sliceMarkdown(t, start, end, options, cache) ==
  IF IsNull(t) THEN [outcome |-> Returned(ResNull), cache |-> cache]
  ELSE IF getNodeLengthThrows(cache, t)
    THEN [outcome |-> Thrown("TypeError"), cache |-> cache]
  ELSE
    LET treeLength == getNodeLength(cache, t)
        cache1 == nodeLengthCacheSet(cache, t)
        normalizedEnd == IF end.given THEN end ELSE MdEndAt(Num(treeLength))
        effectiveEnd == effectiveEndOf(normalizedEnd, treeLength)
        env == [start |-> start.n, effectiveEnd |-> effectiveEnd,
                options |-> resolvedOptions(options)]
    IN  IF treeLength = 0
          THEN [outcome |-> Returned(IF start = Num(0) THEN ResNode(t) ELSE ResNull),
                cache |-> cache1]
        ELSE IF Twice(start) < 0
          THEN [outcome |-> Thrown("Start position must be non-negative"),
                cache |-> cache1]
        ELSE IF ~isInteger(start)
          THEN [outcome |-> Thrown("Start position must be an integer"),
                cache |-> cache1]
        ELSE IF end.given /\ Twice(end) < 0
          THEN [outcome |-> Thrown("End position must be non-negative"),
                cache |-> cache1]
        ELSE IF end.given /\ ~isInteger(end)
          THEN [outcome |-> Thrown("End position must be an integer"),
                cache |-> cache1]
        ELSE IF end.given /\ Twice(end) <= Twice(start)
          THEN [outcome |-> Thrown("End position must be greater than start"),
                cache |-> cache1]
        ELSE IF start.n >= treeLength
          THEN [outcome |-> Returned(ResNull), cache |-> cache1]
        ELSE IF start.n >= effectiveEnd
          THEN [outcome |-> Returned(ResNull), cache |-> cache1]
        ELSE LET r == mdSlice(t, env, [position |-> 0, cache |-> cache1, visits |-> <<>>])
             IN  [outcome |-> Returned(r.res), cache |-> r.st.cache]

\* getTreeLength(tree)
getTreeLength(t, cache) ==
  [result |-> getNodeLength(cache, t), cache |-> nodeLengthCacheSet(cache, t)]


(* ------------------------- findText (slice module) -------------------- *)

\* String.prototype.indexOf(searchText, index): the first match at or after
\* index, -1 when there is none
indexOf(s, searchText, index) ==
  IF searchText = <<>> THEN Min(index, Len(s)) ELSE
  LET hits == {i \in index..(Len(s) - Len(searchText)) :
                 SubSeq(s, i + 1, i + Len(searchText)) = searchText}
  IN  IF hits = {} THEN -1 ELSE CHOOSE i \in hits : \A j \in hits : i <= j

RECURSIVE scanValue(_, _, _, _, _, _)

\* the while loop that records the index inside the value, without the offset
scanValue_noOffset(s, searchText, index, offset, step, positions) ==
  LET at == indexOf(s, searchText, index)
  IN  IF at = -1 THEN positions
      ELSE scanValue(s, searchText, at + step, offset, step, Append(positions, at))

\* the while loop over one value: index advances by `step` after a hit
scanValue(s, searchText, index, offset, step, positions) ==
  LET at == indexOf(s, searchText, index)
  IN  IF at = -1 THEN positions
      ELSE scanValue(s, searchText, at + step, offset, step, Append(positions, offset + at))

\* traverse(node) of findText; acc holds positions and offset
RECURSIVE findTextTraverse(_, _, _)
RECURSIVE findTextTraverseAll(_, _, _, _)
findTextTraverse(n, searchText, acc) ==
  IF isText(n) \/ isCode(n) \/ isInlineCode(n)
  THEN [positions |-> scanValue(n.value, searchText, 0, acc.offset, 1, acc.positions),
        offset |-> acc.offset + Len(n.value)]
  ELSE IF isParent(n) THEN findTextTraverseAll(n.children, 1, searchText, acc)
  ELSE acc

findTextTraverseAll(kids, i, searchText, acc) ==
  IF i > Len(kids) THEN acc
  ELSE findTextTraverseAll(kids, i + 1, searchText,
                           findTextTraverse(kids[i], searchText, acc))

\* the guard that takes no needle for empty
emptyNeedle_never(searchText) == FALSE

\* if (searchText.length < 1)
emptyNeedle(searchText) == Len(searchText) < 1

findText(t, searchText) ==
  IF emptyNeedle(searchText) THEN <<>>
  ELSE findTextTraverse(t, searchText, [positions |-> <<>>, offset |-> 0]).positions

(* ------------- findTextPositions, getNodePosition (sliceMarkdown) ----- *)

\* traverse(node) of findTextPositions; acc holds positions, currentPosition
\* and NODE_LENGTH_CACHE
RECURSIVE findTextPositionsTraverse(_, _, _)
RECURSIVE findTextPositionsTraverseAll(_, _, _, _)
findTextPositionsTraverse(n, searchText, acc) ==
  IF n.type = "text"
  THEN IF Len(n.value) = 0 THEN acc
       ELSE [acc EXCEPT
               !.positions = scanValue(n.value, searchText, 0, acc.currentPosition,
                                       Len(searchText), acc.positions),
               !.currentPosition = acc.currentPosition + Len(n.value)]
  ELSE IF mdIsParent(n) THEN findTextPositionsTraverseAll(n.children, 1, searchText, acc)
  ELSE [acc EXCEPT !.currentPosition = acc.currentPosition + getNodeLength(acc.cache, n),
                   !.cache = nodeLengthCacheSet(acc.cache, n)]

findTextPositionsTraverseAll(kids, i, searchText, acc) ==
  IF i > Len(kids) THEN acc
  ELSE findTextPositionsTraverseAll(kids, i + 1, searchText,
                                    findTextPositionsTraverse(kids[i], searchText, acc))

\* if (searchText.length === 0)
emptySearchText(searchText) == Len(searchText) = 0

findTextPositions(t, searchText, cache) ==
  IF emptySearchText(searchText) THEN [result |-> <<>>, cache |-> cache]
  ELSE LET acc == findTextPositionsTraverse(t, searchText,
                    [positions |-> <<>>, currentPosition |-> 0, cache |-> cache])
       IN  [result |-> acc.positions, cache |-> acc.cache]

\* the outcome of getNodePosition: a span or null
Span(s, e) == [found |-> TRUE, start |-> s, end |-> e]
NoSpan == [found |-> FALSE, start |-> 0, end |-> 0]

\* traverse(node) of getNodePosition; target is an object identity; acc holds
\* the result so far, currentPosition and NODE_LENGTH_CACHE
RECURSIVE getNodePositionTraverse(_, _, _)
RECURSIVE getNodePositionTraverseAll(_, _, _, _)
\* traverse that adds the length of a node to the position its children
\* have already advanced
getNodePositionTraverse_addsLength(n, target, acc) ==
  IF n.oid = target
  THEN [acc EXCEPT !.result = Span(acc.currentPosition,
                                   acc.currentPosition + getNodeLength(acc.cache, n)),
                   !.cache = nodeLengthCacheSet(acc.cache, n)]
  ELSE LET below == IF mdIsParent(n)
                    THEN getNodePositionTraverseAll(n.children, 1, target, acc)
                    ELSE acc
       IN  IF below.result.found THEN below
           ELSE [below EXCEPT
                   !.currentPosition = below.currentPosition + getNodeLength(below.cache, n),
                   !.cache = nodeLengthCacheSet(below.cache, n)]

getNodePositionTraverse(n, target, acc) ==
  IF n.oid = target
  THEN [acc EXCEPT !.result = Span(acc.currentPosition,
                                   acc.currentPosition + getNodeLength(acc.cache, n)),
                   !.cache = nodeLengthCacheSet(acc.cache, n)]
  ELSE LET nodeStart == acc.currentPosition
           below == IF mdIsParent(n)
                    THEN getNodePositionTraverseAll(n.children, 1, target, acc)
                    ELSE acc
       IN  IF below.result.found THEN below
           ELSE [below EXCEPT
                   !.currentPosition = nodeStart + getNodeLength(below.cache, n),
                   !.cache = nodeLengthCacheSet(below.cache, n)]

getNodePositionTraverseAll(kids, i, target, acc) ==
  IF i > Len(kids) \/ acc.result.found THEN acc
  ELSE getNodePositionTraverseAll(kids, i + 1, target,
                                  getNodePositionTraverse(kids[i], target, acc))

getNodePosition(t, target, cache) ==
  LET acc == getNodePositionTraverse(t, target,
               [result |-> NoSpan, currentPosition |-> 0, cache |-> cache])
  IN  [result |-> acc.result, cache |-> acc.cache]


(* =============================== inputs =============================== *)

Values == UNION {[1..m -> Chars] : m \in 0..MaxValLen}

Text(id, v) == Leaf("text", id, v, "")
Para(id, cs) == Parent("paragraph", id, cs, "")

\* Well-formed trees: only text, inlineCode and code leaves carry a value.
\* One leaf of each shape takes every value of Values; the oids number the
\* nodes in document order.
TreesWith(v) ==
  { Text(1, v),
    Leaf("code", 1, v, "js"),
    Leaf("inlineCode", 1, v, ""),
    Para(1, <<Text(2, v), Text(3, <<"a">>)>>),
    Para(1, <<Text(2, <<"a", "a", " ">>), Text(3, v)>>),
    Para(1, <<Leaf("text", 2, v, "first"), Leaf("text", 3, <<"a", " ">>, "second")>>),
    Para(1, <<Text(2, <<" ", "a">>), Parent("emphasis", 3, <<Text(4, v)>>, ""),
              Text(5, <<" ", "a">>)>>),
    Para(1, <<Leaf("inlineCode", 2, v, ""), Text(3, <<" ", "a">>)>>),
    Para(1, <<Text(2, v), Atom("break", 3, ""), Text(4, <<"a">>)>>),
    Para(1, <<Text(2, <<"a">>), Atom("image", 3, "url"), Text(4, v), Text(5, <<>>)>>),
    Para(1, <<Text(2, <<"a">>), Parent("link", 3, <<Text(4, v)>>, "url")>>),
    Parent("emphasis", 1, <<Text(2, v), Parent("strong", 3, <<Text(4, <<"a">>)>>, "")>>, ""),
    Parent("link", 1, <<Text(2, v)>>, "url"),
    Parent("root", 1, <<Parent("heading", 2, <<Text(3, v)>>, "depth"),
                        Para(4, <<Text(5, <<"a", " ">>)>>),
                        Leaf("code", 6, <<"a", "a">>, "js")>>, ""),
    Parent("list", 1,
           <<Parent("listItem", 2, <<Para(3, <<Text(4, v)>>)>>, ""),
             Parent("listItem", 5, <<Para(6, <<Text(7, <<"a">>)>>)>>, "")>>, "ordered"),
    Parent("blockquote", 1, <<Para(2, <<Text(3, v), Atom("thematicBreak", 4, "")>>)>>, ""),
    Parent("custom", 1, <<Text(2, v), Atom("custom", 3, "prop"), Text(4, <<"a">>)>>, "prop"),
    Para(1, <<Text(2, <<"a">>), Atom("custom", 3, "prop"), Text(4, v)>>),
    Para(1, <<Text(2, <<"a">>), Text(3, v), Text(4, <<" ", "a">>)>>),
    Para(1, <<Text(2, <<"a">>), Leaf("inlineCode", 3, v, ""), Text(4, <<"a">>)>>),
    Parent("root", 1, <<Text(2, v), Parent("list", 3, <<>>, "ordered"),
                        Text(4, <<"a">>)>>, "") }

Trees == UNION {TreesWith(v) : v \in Values}
         \cup {Para(1, <<>>), Atom("custom", 1, "prop"), Atom("break", 1, ""),
               Parent("list", 1, <<>>, "ordered")}

\* SliceConfig values: no config, one group given with one field, the
\* presets, and a config that states every field
PartialNodes(t, c, i, f, m, b) ==
  [text |-> t, code |-> c, inlineCode |-> i, formatting |-> f, media |-> m, blocks |-> b]
TextHandling(b, m) == [boundaries |-> b, mergeAdjacent |-> m]
NoPartialNodes == PartialNodes(Undef, Undef, Undef, Undef, Undef, Undef)
NoTextHandling == TextHandling(Undef, Undef)
Config(pn, th) ==
  [hasPartialNodes |-> pn # NoPartialNodes, partialNodes |-> pn,
   hasTextHandling |-> th # NoTextHandling, textHandling |-> th]

presets ==
  [textOnly |-> Config(PartialNodes(Undef, Undef, Undef, "strip", "content-only", "unwrap"),
                       TextHandling("trim", "true")),
   structured |-> Config(PartialNodes("truncate", Undef, Undef, "preserve", Undef, "include"),
                         NoTextHandling),
   inclusive |-> Config(PartialNodes("include-full", "include-full", Undef, "extend", Undef,
                                     "include"), NoTextHandling),
   conservative |-> Config(PartialNodes("truncate", "exclude-full", Undef, "strip", Undef,
                                        "exclude"), NoTextHandling)]

EmptyConfig == Config(NoPartialNodes, NoTextHandling)

Configs ==
  {EmptyConfig, presets.textOnly, presets.structured, presets.inclusive, presets.conservative}
  \cup {Config(NoPartialNodes, TextHandling(b, Undef)) : b \in {"preserve", "normalize"}}
  \cup {Config(NoPartialNodes, TextHandling(b, m)) :
          b \in {"trim", "preserve"}, m \in {"true", "false"}}
  \cup {Config(PartialNodes("truncate", c, c, "preserve", "preserve", "include"),
               TextHandling("trim", "true")) : c \in {"truncate", "include-full", "exclude-full"}}
  \cup {Config(PartialNodes(Undef, Undef, Undef, Undef, m, Undef), NoTextHandling) :
          m \in {"strip", "content-only"}}
  \cup {Config(PartialNodes(Undef, Undef, Undef, f, Undef, Undef), NoTextHandling) :
          f \in {"extend", "strip"}}
  \cup {Config(PartialNodes(t, Undef, Undef, Undef, Undef, Undef), NoTextHandling) :
          t \in {"include-full", "exclude-full"}}

\* SliceOptions values
Behavior(fmt, link, code, image) ==
  [link |-> link, emphasis |-> fmt, strong |-> fmt, delete |-> fmt, inlineCode |-> code,
   code |-> code, image |-> image, imageReference |-> image, linkReference |-> link]
Options(bh, pb, tw) == [behavior |-> bh, preserveBlocks |-> pb, trimWhitespace |-> tw]
NoBehavior == Behavior(Undef, Undef, Undef, Undef)

OptionsSet ==
  {Options(NoBehavior, Undef, Undef), Options(NoBehavior, "false", Undef),
   Options(NoBehavior, Undef, "true"), Options(NoBehavior, "true", "false"),
   Options(NoBehavior, "false", "true")}
  \cup {Options(Behavior(Undef, Undef, c, Undef), Undef, t) :
          c \in {"trim", "exclude"}, t \in {"false", "true"}}
  \cup {Options(Behavior(f, f, Undef, i), Undef, Undef) :
          f \in {"preserve", "trim", "exclude"}, i \in {"exclude"}}
  \cup {Options(Behavior(f, f, Undef, Undef), Undef, "true") : f \in {"trim", "exclude"}}

TreeLen(t) == IF IsNull(t) THEN 0 ELSE calculateLength(t)

Positions(t) == -1..(TreeLen(t) + Beyond)

Needles == UNION {[1..m -> Chars] : m \in 0..MaxNeedleLen}

RECURSIVE oidsOf(_)
oidsOf(n) == {n.oid} \cup UNION {oidsOf(n.children[i]) : i \in 1..Len(n.children)}

(* ====================== the caller's view of the heap ================= *)

\* every object reachable from a node
RECURSIVE objectsIn(_)
objectsIn(n) == {n} \cup UNION {objectsIn(n.children[i]) : i \in 1..Len(n.children)}

objectsOf(res) == UNION {objectsIn(res.nodes[i]) : i \in 1..Len(res.nodes)}

\* The caller's tree after a call that handed back the objects `objs`: an
\* object of the tree that is among them has the fields it has there.
RECURSIVE heapAfter(_, _)
heapAfter(n, objs) ==
  LET same == {o \in objs : o.oid = n.oid /\ o.oid # 0}
      now == IF same = {} THEN n ELSE CHOOSE o \in same : TRUE
  IN  [now EXCEPT !.children = [i \in 1..Len(now.children) |->
                                  heapAfter(now.children[i], objs)]]

(* ============================ state machine =========================== *)

EmptyCache == [x \in {} |-> 0]

Init ==
  /\ tree \in Trees \cup {NullNode}
  /\ op = "init"
  /\ args = <<>>
  /\ ret = <<>>
  /\ lengthCache = EmptyCache
  /\ NODE_LENGTH_CACHE = EmptyCache

CallSlice ==
  /\ op = "init"
  /\ \E start \in Positions(tree), e \in {NoEnd} \cup {EndAt(x) : x \in Positions(tree)},
        config \in Configs :
       LET r == slice(tree, start, e, config, lengthCache)
       IN  /\ op' = "slice"
           /\ args' = [start |-> start, end |-> e, config |-> config]
           /\ ret' = r.result
           /\ lengthCache' = r.cache
           /\ tree' = heapAfter(tree, objectsIn(r.result.node))
  /\ UNCHANGED NODE_LENGTH_CACHE

CallLength ==
  /\ op = "init"
  /\ LET r == length(tree, lengthCache)
     IN  /\ op' = "length"
         /\ args' = <<>>
         /\ ret' = r.result
         /\ lengthCache' = r.cache
  /\ UNCHANGED <<tree, NODE_LENGTH_CACHE>>

CallFindText ==
  /\ op = "init"
  /\ ~IsNull(tree)
  /\ \E searchText \in Needles :
       /\ op' = "findText"
       /\ args' = [searchText |-> searchText]
       /\ ret' = findText(tree, searchText)
  /\ UNCHANGED <<tree, lengthCache, NODE_LENGTH_CACHE>>

MdStarts(t) == {Num(x) : x \in Positions(t)} \cup {NumHalf(0)}
MdEnds(t) == {MdNoEnd} \cup {MdEndAt(x) : x \in MdStarts(t)}

CallSliceMarkdown ==
  /\ op = "init"
  /\ \E start \in MdStarts(tree), e \in MdEnds(tree), options \in OptionsSet :
       LET r == sliceMarkdown(tree, start, e, options, NODE_LENGTH_CACHE)
       IN  /\ op' = "sliceMarkdown"
           /\ args' = [start |-> start, end |-> e, options |-> options]
           /\ ret' = r.outcome
           /\ NODE_LENGTH_CACHE' = r.cache
           /\ tree' = heapAfter(tree, objectsOf(r.outcome.res))
  /\ UNCHANGED lengthCache

CallGetTreeLength ==
  /\ op = "init"
  /\ ~IsNull(tree)
  /\ LET r == getTreeLength(tree, NODE_LENGTH_CACHE)
     IN  /\ op' = "getTreeLength"
         /\ args' = <<>>
         /\ ret' = r.result
         /\ NODE_LENGTH_CACHE' = r.cache
  /\ UNCHANGED <<tree, lengthCache>>

CallFindTextPositions ==
  /\ op = "init"
  /\ ~IsNull(tree)
  /\ \E searchText \in Needles :
       LET r == findTextPositions(tree, searchText, NODE_LENGTH_CACHE)
       IN  /\ op' = "findTextPositions"
           /\ args' = [searchText |-> searchText]
           /\ ret' = r.result
           /\ NODE_LENGTH_CACHE' = r.cache
  /\ UNCHANGED <<tree, lengthCache>>

CallGetNodePosition ==
  /\ op = "init"
  /\ ~IsNull(tree)
  /\ \E target \in oidsOf(tree) \cup {0} :
       LET r == getNodePosition(tree, target, NODE_LENGTH_CACHE)
       IN  /\ op' = "getNodePosition"
           /\ args' = [target |-> target]
           /\ ret' = r.result
           /\ NODE_LENGTH_CACHE' = r.cache
  /\ UNCHANGED <<tree, lengthCache>>

Next ==
  \/ CallSlice
  \/ CallLength
  \/ CallFindText
  \/ CallSliceMarkdown
  \/ CallGetTreeLength
  \/ CallFindTextPositions
  \/ CallGetNodePosition

Spec == Init /\ [][Next]_vars

(* =============================== claims =============================== *)

\* the leaf text of a node: the values of its leaves in document order
RECURSIVE LeafText(_)
RECURSIVE LeafTextAll(_, _)
LeafText(n) == IF n.hasValue THEN n.value ELSE LeafTextAll(n.children, 1)
LeafTextAll(kids, i) ==
  IF i > Len(kids) THEN <<>> ELSE LeafText(kids[i]) \o LeafTextAll(kids, i + 1)

\* the leaf text of a result Node | Node[] | null
ResText(res) == LeafTextAll(res.nodes, 1)

\* the characters [a, b) of a text
Substring(s, a, b) == SubSeq(s, a + 1, b)

IsSubstring(a, b) ==
  \E i \in 0..(Len(b) - Len(a)) : SubSeq(b, i + 1, i + Len(a)) = a

\* a config that leaves partialNodes at its default and sets boundaries to
\* 'preserve'
PreserveConfig(config) ==
  /\ ~config.hasPartialNodes
  /\ config.hasTextHandling
  /\ config.textHandling.boundaries = "preserve"

\* options with trimWhitespace false, inlineCode and code behavior 'trim' and
\* every other behavior left at its default
ExactOptions(options) ==
  /\ ~resolvedOptions(options).trimWhitespace
  /\ options.behavior = Behavior(Undef, Undef, "trim", Undef)

\* C1 (exact extraction): for integers 0 <= start < end <= length(tree), the
\* leaf text of the result of slice() with default partialNodes and
\* boundaries 'preserve', and of sliceMarkdown() with trimWhitespace false and
\* inlineCode/code behavior 'trim', is exactly the characters [start, end) of
\* the leaf text of the tree.
C1_ExactExtraction ==
  /\ ( /\ op = "slice"
       /\ ~IsNull(tree)
       /\ PreserveConfig(args.config)
       /\ args.end.given
       /\ 0 <= args.start /\ args.start < args.end.n /\ args.end.n <= TreeLen(tree) )
     => LeafText(ret.node) = Substring(LeafText(tree), args.start, args.end.n)
  /\ ( /\ op = "sliceMarkdown"
       /\ ~IsNull(tree)
       /\ ExactOptions(args.options)
       /\ args.end.given /\ isInteger(args.start) /\ isInteger(args.end)
       /\ 0 <= args.start.n /\ args.start.n < args.end.n /\ args.end.n <= TreeLen(tree) )
     => /\ ret.kind = "return"
        /\ ResText(ret.res) = Substring(LeafText(tree), args.start.n, args.end.n)

\* a slice() call under a preserving config whose range cuts into the tree on
\* both sides and spans more than one leaf
C1_Witness ==
  /\ op = "slice"
  /\ PreserveConfig(args.config)
  /\ args.end.given
  /\ 0 < args.start /\ args.end.n < TreeLen(tree)
  /\ ret.info.hasPartialNodes
  /\ ~IsNull(ret.node)
  /\ Len(ret.node.children) >= 2
  /\ LeafText(ret.node) = Substring(LeafText(tree), args.start, args.end.n)

FullRange == op = "slice" /\ ~IsNull(tree) /\ args.start = 0
             /\ args.end = EndAt(TreeLen(tree))

TruncatePolicies(config) ==
  \A t \in {"text", "code", "inlineCode"} :
    leafBehavior(resolvedConfig(config), t) \notin {"include-full", "exclude-full"}

\* C4 (monotonic containment): for s2 <= s1 < e1 <= e2 and one configuration
\* with truncate leaf policies (the default included), the leaf text of
\* slice(tree, s1, e1) is a contiguous substring of the leaf text of
\* slice(tree, s2, e2).
C4_MonotonicContainment ==
  ( /\ op = "slice"
    /\ ~IsNull(tree)
    /\ TruncatePolicies(args.config)
    /\ args.end.given
    /\ 0 <= args.start /\ args.start < args.end.n )
  => \A s2 \in 0..args.start, e2 \in args.end.n..(TreeLen(tree) + Beyond) :
       IsSubstring(LeafText(ret.node),
                   LeafText(slice(tree, s2, EndAt(e2), args.config, EmptyCache).result.node))

\* C5 (no mutation): no call of slice, sliceMarkdown, length, getTreeLength,
\* findText, findTextPositions or getNodePosition changes a field, a
\* children sequence or a leaf value of the caller's tree, whether it
\* returns or throws.
C5_NoMutation == [][tree' = tree]_vars

\* a sliceMarkdown() call that handed back objects of the caller's tree
\* inside a new parent that has lost children
C5_Witness ==
  /\ op = "sliceMarkdown"
  /\ ret.kind = "return"
  /\ ret.res.kind = "node"
  /\ ret.res.nodes[1].oid = 0
  /\ Len(ret.res.nodes[1].children) < Len(tree.children)
  /\ \E o \in objectsOf(ret.res) : o.oid # 0

\* C6 (fresh clones): every node object in the result of slice() and of
\* sliceMarkdown() is a newly allocated object, never an object of the
\* caller's tree.
C6_FreshClones ==
  /\ (op = "slice" /\ ~IsNull(ret.node))
       => \A o \in objectsIn(ret.node) : o.oid = 0
  /\ (op = "sliceMarkdown" /\ ret.kind = "return")
       => \A o \in objectsOf(ret.res) : o.oid = 0

\* the result slice() returns for invalid input
NullSliceResult == SliceResult(NullNode, 0, 0, 0, 0, FALSE, <<>>)

\* C7 (permissive invalid input): when tree is null/undefined or start < 0,
\* slice() returns node null, boundaries {start: 0, end: 0}, originalLength
\* 0, slicedLength 0, hasPartialNodes false and no modifiedNodeTypes, and it
\* computes no length: the length cache stays as it was.
C7_PermissiveInvalidInput ==
  (op = "slice" /\ (IsNull(tree) \/ args.start < 0)) =>
    /\ ret = NullSliceResult
    /\ lengthCache = EmptyCache

\* slice() called with a negative start on a tree that has content
C7_Witness ==
  /\ op = "slice"
  /\ ~IsNull(tree)
  /\ TreeLen(tree) > 0
  /\ args.start < 0
  /\ ret = NullSliceResult

\* C8 (range normalisation): for a non-null tree and start >= 0, slice()
\* reports boundaries {start, E} with E = min(end, length(tree)), or
\* length(tree) when end is left out; when start >= E the node is null,
\* slicedLength is 0, hasPartialNodes is false and originalLength is
\* length(tree).
C8_RangeNormalisation ==
  (op = "slice" /\ ~IsNull(tree) /\ args.start >= 0) =>
    LET L == calculateLength(tree)
        E == IF args.end.given THEN Min(args.end.n, L) ELSE L
    IN  /\ ret.boundaries = [start |-> args.start, end |-> E]
        /\ ret.info.originalLength = L
        /\ args.start >= E =>
             /\ IsNull(ret.node)
             /\ ret.info.slicedLength = 0
             /\ ~ret.info.hasPartialNodes

\* slice() called with an end beyond the tree: the end is clamped and the
\* rest of the tree is returned
C8_Witness ==
  /\ op = "slice"
  /\ ~IsNull(tree)
  /\ args.start > 0
  /\ args.end.given
  /\ args.end.n > TreeLen(tree)
  /\ ret.boundaries.end = TreeLen(tree)
  /\ ~IsNull(ret.node)

\* arguments sliceMarkdown() rejects
InvalidRange(a) ==
  \/ Twice(a.start) < 0
  \/ ~isInteger(a.start)
  \/ a.end.given /\ (Twice(a.end) < 0 \/ ~isInteger(a.end)
                     \/ Twice(a.end) <= Twice(a.start))

\* C9 (strict validation): for a non-null tree, sliceMarkdown() throws when
\* start is negative or not an integer, or when end is given and is
\* negative, not an integer, or <= start; it never returns a value then.
C9_StrictValidation ==
  (op = "sliceMarkdown" /\ ~IsNull(tree) /\ InvalidRange(args)) =>
    ret.kind = "throw"

\* integer arguments 0 <= start < end, or end left out
ValidRange(a) ==
  /\ isInteger(a.start) /\ a.start.n >= 0
  /\ a.end.given => (isInteger(a.end) /\ a.end.n > a.start.n)

OrDefault(x, d) == IF x # Undef THEN x ELSE d

\* the config with every field it leaves unspecified set to its documented
\* default
WithDefaults(config) ==
  LET pn == config.partialNodes
      th == config.textHandling
      dp == DEFAULT_CONFIG.partialNodes
      dt == DEFAULT_CONFIG.textHandling
  IN  [hasPartialNodes |-> TRUE,
       partialNodes |->
         PartialNodes(OrDefault(pn.text, dp.text), OrDefault(pn.code, dp.code),
                      OrDefault(pn.inlineCode, dp.inlineCode),
                      OrDefault(pn.formatting, dp.formatting),
                      OrDefault(pn.media, dp.media), OrDefault(pn.blocks, dp.blocks)),
       hasTextHandling |-> TRUE,
       textHandling |->
         TextHandling(OrDefault(th.boundaries, dt.boundaries),
                      OrDefault(th.mergeAdjacent, dt.mergeAdjacent))]

\* C11 (config defaults): slice(tree, s, e, c) returns the same result as
\* slice(tree, s, e, c') where c' is c with every field c leaves unspecified,
\* a field of a partly specified group included, set to its documented
\* default.
C11_ConfigDefaults ==
  (op = "slice" /\ ~IsNull(tree)) =>
    ret = slice(tree, args.start, args.end, WithDefaults(args.config), EmptyCache).result

\* the behaviour the config states for leaves of this type, 'truncate' when
\* it states none
ConfiguredLeafPolicy(config, type) ==
  IF config.hasPartialNodes
  THEN OrDefault(config.partialNodes[type], "truncate")
  ELSE "truncate"

\* a slice() call on a tree that is one leaf, with a range that overlaps the
\* leaf and cuts it
PartialRootLeaf ==
  /\ op = "slice"
  /\ ~IsNull(tree)
  /\ tree.type \in {"text", "code", "inlineCode"}
  /\ args.start >= 0
  /\ args.start < ret.boundaries.end
  /\ (args.start > 0 \/ ret.boundaries.end < Len(tree.value))

\* C12 (per-type leaf policy): a partially overlapping leaf of type text,
\* code or inlineCode is handled by the behaviour configured for its own type,
\* 'truncate' when that field is not given, whatever is configured for the
\* other leaf types: 'include-full' returns the whole leaf, 'exclude-full'
\* returns nothing, 'truncate' returns characters of the range only.
C12_PerTypeLeafPolicy ==
  PartialRootLeaf =>
    LET policy == ConfiguredLeafPolicy(args.config, tree.type)
        inRange == Substring(tree.value, args.start, ret.boundaries.end)
    IN  /\ policy = "include-full" => ret.node = Spread(tree)
        /\ policy = "exclude-full" => IsNull(ret.node)
        /\ policy = "truncate" =>
             IF tree.type = "text"
             THEN IsSubstring(LeafText(ret.node), inRange)
             ELSE ret.node = SpreadValue(tree, inRange)

\* a slice() call whose non-empty range overlaps the span [ns, ne) and cuts it
CutsSpan(ns, ne) ==
  /\ args.start >= 0
  /\ args.start < ret.boundaries.end
  /\ ns < ret.boundaries.end /\ ne > args.start
  /\ (ns < args.start \/ ne > ret.boundaries.end)

\* the offset at which child i of a parent at offset 0 starts
ChildOffset(n, i) == Len(LeafTextAll(SubSeq(n.children, 1, i - 1), 1))

\* the node types the formatting policy governs
FormattingTypes == {"emphasis", "strong", "delete", "underline"}

\* C13 (formatting 'extend'): when a formatting node, the root or a child of
\* the root, only partially overlaps the range and partialNodes.formatting is
\* 'extend', the result contains that node with its full content, the part
\* outside [start, end) included.
C13_FormattingExtend ==
  ( /\ op = "slice"
    /\ ~IsNull(tree)
    /\ args.config.hasPartialNodes
    /\ args.config.partialNodes.formatting = "extend" )
  => /\ (tree.type \in FormattingTypes /\ CutsSpan(0, TreeLen(tree)))
          => /\ ~IsNull(ret.node)
             /\ ret.node.type = tree.type
             /\ LeafText(ret.node) = LeafText(tree)
     /\ \A i \in 1..Len(tree.children) :
          LET c == tree.children[i]
              ns == ChildOffset(tree, i)
          IN  (c.type \in FormattingTypes /\ CutsSpan(ns, ns + TreeLen(c)))
                => /\ ~IsNull(ret.node)
                   /\ \E j \in 1..Len(ret.node.children) :
                        /\ ret.node.children[j].type = c.type
                        /\ LeafText(ret.node.children[j]) = LeafText(c)

\* the policy of the root's category unwraps a partially covered root
RootUnwraps ==
  LET pn == resolvedConfig(args.config).partialNodes
  IN  \/ isFormatting(tree) /\ pn.formatting = "strip"
      \/ isMedia(tree) /\ pn.media = "content-only"
      \/ isBlock(tree) /\ pn.blocks = "unwrap"

\* the elements of a sequence
Elements(seq) == {seq[i] : i \in 1..Len(seq)}

AttrsOf(n) == [type |-> n.type, attr |-> n.attr, isLeaf |-> n.hasValue,
               isParent |-> n.hasChildren]

\* every object among objs has the type and attributes of a node of the tree
AttrsFromTree(objs) ==
  \A o \in objs : \E n \in objectsIn(tree) : AttrsOf(o) = AttrsOf(n)

\* the range of the slice() call overlaps child i of the root
ChildInRange(i) ==
  LET ns == ChildOffset(tree, i)
      ne == ns + TreeLen(tree.children[i])
  IN  ne > args.start /\ ns < ret.boundaries.end

\* a slice() call that merges adjacent text and keeps every character of
\* the range, on a root whose children are all text nodes
MergesAllChildren ==
  /\ op = "slice"
  /\ ~IsNull(tree)
  /\ tree.children # <<>>
  /\ \A i \in 1..Len(tree.children) : tree.children[i].type = "text"
  /\ resolvedConfig(args.config).textHandling = TextHandling("preserve", "true")
  /\ TruncatePolicies(args.config)
  /\ ~IsNull(ret.node)

\* C15 (pass-through attributes): every node in the result of slice() or
\* sliceMarkdown() has the type and the attributes other than value/children
\* of a node of the input, the returned root those of the input root; a text
\* node produced by merging has the attributes of the first merged node.
C15_PassThroughAttributes ==
  /\ (op = "slice" /\ ~IsNull(ret.node)) =>
       /\ AttrsOf(ret.node) = AttrsOf(tree)
       /\ AttrsFromTree(objectsIn(ret.node))
  /\ (op = "sliceMarkdown" /\ ret.kind = "return") =>
       /\ AttrsFromTree(objectsOf(ret.res))
       /\ ret.res.kind = "node" => AttrsOf(ret.res.nodes[1]) = AttrsOf(tree)
  /\ MergesAllChildren =>
       LET first == CHOOSE i \in 1..Len(tree.children) :
                      /\ ChildInRange(i)
                      /\ \A k \in 1..(i - 1) : ~ChildInRange(k)
       IN  /\ Len(ret.node.children) = 1
           /\ AttrsOf(ret.node.children[1]) = AttrsOf(tree.children[first])

\* a slice() call that truncated two text nodes with different attributes
\* and merged them into one
C15_Witness ==
  /\ MergesAllChildren
  /\ ret.info.hasPartialNodes
  /\ Len(tree.children) = 2
  /\ tree.children[1].attr # tree.children[2].attr
  /\ ChildInRange(1) /\ ChildInRange(2)
  /\ ret.node.children[1].attr = tree.children[1].attr
  /\ Len(ret.node.children[1].value) >= 2

\* needle occurs in text at offset i
OccursAt(text, needle, i) ==
  /\ i + Len(needle) <= Len(text)
  /\ SubSeq(text, i + 1, i + Len(needle)) = needle

\* the offsets >= i at which needle occurs in text, in ascending order
RECURSIVE OccurrencesFrom(_, _, _)
OccurrencesFrom(text, needle, i) ==
  IF i + Len(needle) > Len(text) THEN <<>>
  ELSE (IF OccursAt(text, needle, i) THEN <<i>> ELSE <<>>)
       \o OccurrencesFrom(text, needle, i + 1)

\* C16 (findText): for a non-empty needle, findText(tree, needle) returns in
\* ascending order exactly the starting offsets, in the concatenation of the
\* leaf text of the tree, of all literal occurrences of needle, overlapping
\* occurrences included.
C16_FindText ==
  (op = "findText" /\ args.searchText # <<>>) =>
    ret = OccurrencesFrom(LeafText(tree), args.searchText, 0)

\* a needle that does not start or end with whitespace
NoEdgeWhitespace(s) == s # <<>> /\ ~isSpace(s[1]) /\ ~isSpace(s[Len(s)])

\* the leaf text of slice(tree, p, p + n) under the default configuration
SlicedTextAt(p, n) ==
  LeafText(slice(tree, p, EndAt(p + n), EmptyConfig, EmptyCache).result.node)

SearchFunctions == {"findText", "findTextPositions"}

\* what the loop adds to index after a hit: index++ or index += searchLength
searchStep(fn, searchText) == IF fn = "findText" THEN 1 ELSE Len(searchText)

\* the leaves whose value the traversal searches
searchesLeaf(fn, n) ==
  IF fn = "findText" THEN isText(n) \/ isCode(n) \/ isInlineCode(n)
  ELSE n.type = "text"

\* the children test of the traversal
searchIsParent(fn, n) == IF fn = "findText" THEN isParent(n) ELSE mdIsParent(n)

SearchInit ==
  /\ tree \in Trees
  /\ op = "search"
  /\ args \in [fn : SearchFunctions, searchText : Needles]
  /\ ret = [pc |-> "guard", todo |-> <<>>, index |-> 0, offset |-> 0, positions |-> <<>>]
  /\ lengthCache = EmptyCache
  /\ NODE_LENGTH_CACHE = EmptyCache

\* the test of the needle before the traversal starts
SearchGuard ==
  /\ op = "search" /\ ret.pc = "guard"
  /\ ret' = IF (IF args.fn = "findText" THEN emptyNeedle(args.searchText)
                ELSE emptySearchText(args.searchText))
            THEN [ret EXCEPT !.pc = "done"]
            ELSE [ret EXCEPT !.pc = "traverse", !.todo = <<tree>>]
  /\ UNCHANGED <<tree, op, args, lengthCache, NODE_LENGTH_CACHE>>

\* traverse(node) entered for the next node
SearchVisit ==
  /\ op = "search" /\ ret.pc = "traverse" /\ ret.todo # <<>>
  /\ LET n == Head(ret.todo)
     IN  IF searchesLeaf(args.fn, n)
         THEN /\ ret' = IF args.fn = "findTextPositions" /\ Len(n.value) = 0
                        THEN [ret EXCEPT !.todo = Tail(ret.todo)]
                        ELSE [ret EXCEPT !.pc = "loop", !.index = 0]
              /\ UNCHANGED NODE_LENGTH_CACHE
         ELSE IF searchIsParent(args.fn, n)
         THEN /\ ret' = [ret EXCEPT !.todo = n.children \o Tail(ret.todo)]
              /\ UNCHANGED NODE_LENGTH_CACHE
         ELSE IF args.fn = "findTextPositions"
         THEN /\ ret' = [ret EXCEPT !.todo = Tail(ret.todo),
                                    !.offset = ret.offset + getNodeLength(NODE_LENGTH_CACHE, n)]
              /\ NODE_LENGTH_CACHE' = nodeLengthCacheSet(NODE_LENGTH_CACHE, n)
         ELSE /\ ret' = [ret EXCEPT !.todo = Tail(ret.todo)]
              /\ UNCHANGED NODE_LENGTH_CACHE
  /\ UNCHANGED <<tree, op, args, lengthCache>>

\* one pass of the while loop that finds the needle
SearchHit ==
  /\ op = "search" /\ ret.pc = "loop"
  /\ LET at == indexOf(Head(ret.todo).value, args.searchText, ret.index)
     IN  /\ at # -1
         /\ ret' = [ret EXCEPT !.positions = Append(ret.positions, ret.offset + at),
                               !.index = at + searchStep(args.fn, args.searchText)]
  /\ UNCHANGED <<tree, op, args, lengthCache, NODE_LENGTH_CACHE>>

\* the while loop ends: the offset moves past the leaf
SearchLeafDone ==
  /\ op = "search" /\ ret.pc = "loop"
  /\ indexOf(Head(ret.todo).value, args.searchText, ret.index) = -1
  /\ ret' = [ret EXCEPT !.pc = "traverse", !.todo = Tail(ret.todo),
                        !.offset = ret.offset + Len(Head(ret.todo).value)]
  /\ UNCHANGED <<tree, op, args, lengthCache, NODE_LENGTH_CACHE>>

\* traverse(tree) has returned: the function returns positions
SearchReturn ==
  /\ op = "search" /\ ret.pc = "traverse" /\ ret.todo = <<>>
  /\ ret' = [ret EXCEPT !.pc = "done"]
  /\ UNCHANGED <<tree, op, args, lengthCache, NODE_LENGTH_CACHE>>

SearchNext ==
  \/ SearchGuard
  \/ SearchVisit
  \/ SearchHit
  \/ SearchLeafDone
  \/ SearchReturn

\* the functions are synchronous: a call that can take a step takes it
SearchSpec == SearchInit /\ [][SearchNext]_vars /\ WF_vars(SearchNext)

\* C18 (empty needle, termination): findText(tree, '') and
\* findTextPositions(tree, '') return the empty list; for every needle and
\* tree both functions terminate, the search index moving strictly forward
\* at each hit; what they return is what findText / findTextPositions
\* compute.
C18_EmptyNeedleTermination ==
  /\ <>(ret.pc = "done")
  /\ [](args.searchText = <<>> => (ret.positions = <<>> /\ ret.pc # "loop"))
  /\ [][ret.pc = "loop" /\ ret'.pc = "loop" => ret'.index > ret.index]_vars
  /\ [](ret.pc = "done" =>
          ret.positions = (IF args.fn = "findText" THEN findText(tree, args.searchText)
                           ELSE findTextPositions(tree, args.searchText,
                                                  EmptyCache).result))

\* a search that returned after several hits in more than one leaf
C18_Witness ==
  /\ op = "search"
  /\ ret.pc = "done"
  /\ args.searchText # <<>>
  /\ Len(ret.positions) >= 3
  /\ Len(tree.children) >= 2

\* the sum of the lengths of the values of a set of leaves
RECURSIVE SumOfValueLengths(_)
SumOfValueLengths(leaves) ==
  IF leaves = {} THEN 0
  ELSE LET l == CHOOSE x \in leaves : TRUE
       IN  Len(l.value) + SumOfValueLengths(leaves \ {l})

\* the leaves of the tree that precede the object `target` in document
\* order: the oids of a tree number its nodes in document order
LeavesBefore(target) ==
  {n \in objectsIn(tree) : n.hasValue /\ n.oid < target}

\* the object of the tree with identity `target`
ObjectOf(target) == CHOOSE n \in objectsIn(tree) : n.oid = target

\* C19 (getNodePosition): when target is, by identity, the tree or one of its
\* descendants, the result is {start, end} with start the sum of the lengths
\* of the leaves that precede target in document order and
\* end = start + getTreeLength(target); when target is no object of the tree
\* the result is null.
C19_GetNodePosition ==
  op = "getNodePosition" =>
    IF args.target \in oidsOf(tree)
    THEN LET start == SumOfValueLengths(LeavesBefore(args.target))
         IN  ret = Span(start,
                        start + getTreeLength(ObjectOf(args.target), EmptyCache).result)
    ELSE ret = NoSpan

\* getNodePosition() for a node with content that follows a container with
\* content
C19_Witness ==
  /\ op = "getNodePosition"
  /\ args.target \in oidsOf(tree)
  /\ ret.found
  /\ ret.start > 0
  /\ ret.end > ret.start
  /\ \E n \in objectsIn(tree) :
       n.hasChildren /\ n.oid # tree.oid /\ n.oid < args.target /\ TreeLen(n) > 0
       /\ ObjectOf(args.target) \notin objectsIn(n)

(* ------------------ the two length functions, any leaf ---------------- *)

\* Trees for the length functions: the well-formed trees, and trees with a
\* leaf of another type that carries a value
LengthTreesWith(v) ==
  { Leaf("html", 1, v, ""),
    Leaf("yaml", 1, v, ""),
    Para(1, <<Text(2, v), Leaf("html", 3, <<"a", "a", " ">>, "")>>),
    Parent("root", 1, <<Leaf("html", 2, v, ""), Para(3, <<Text(4, <<"a">>)>>)>>, "") }

LengthTrees == Trees \cup UNION {LengthTreesWith(v) : v \in Values}

\* the outcome of a call that returns a number
ReturnedLength(n) == [kind |-> "return", length |-> n, error |-> ""]
ThrownLength(msg) == [kind |-> "throw", length |-> 0, error |-> msg]

LengthInit ==
  /\ tree \in LengthTrees \cup {NullNode}
  /\ op = "init"
  /\ args = <<>>
  /\ ret = <<>>
  /\ lengthCache = EmptyCache
  /\ NODE_LENGTH_CACHE = EmptyCache

\* getTreeLength(tree), for every argument
CallGetTreeLengthOutcome ==
  /\ op = "init"
  /\ op' = "getTreeLength"
  /\ args' = <<>>
  /\ IF getNodeLengthThrows(NODE_LENGTH_CACHE, tree)
     THEN /\ ret' = ThrownLength("TypeError")
          /\ UNCHANGED NODE_LENGTH_CACHE
     ELSE LET r == getTreeLength(tree, NODE_LENGTH_CACHE)
          IN  /\ ret' = ReturnedLength(r.result)
              /\ NODE_LENGTH_CACHE' = r.cache
  /\ UNCHANGED <<tree, lengthCache>>

LengthNext ==
  \/ CallLength
  \/ CallGetTreeLengthOutcome

LengthSpec == LengthInit /\ [][LengthNext]_vars

\* the length of a node as the documentation defines it
RECURSIVE LengthDefinition(_)
RECURSIVE LengthDefinitionSum(_, _)
LengthDefinition(n) ==
  IF IsNull(n) THEN 0
  ELSE IF ~n.hasChildren /\ n.type \in {"text", "inlineCode", "code"} THEN Len(n.value)
  ELSE IF n.hasChildren THEN LengthDefinitionSum(n.children, 1)
  ELSE 0
LengthDefinitionSum(kids, i) ==
  IF i > Len(kids) THEN 0
  ELSE LengthDefinition(kids[i]) + LengthDefinitionSum(kids, i + 1)

\* C20 (length definition): length(node) is value.length for a text,
\* inlineCode or code leaf, the sum over the children for a container, 0 for
\* every other node whatever fields it carries, and 0 without error for
\* null; getTreeLength() returns the same values.
C20_LengthDefinition ==
  /\ op = "length" => ret = LengthDefinition(tree)
  /\ op = "getTreeLength" => ret = ReturnedLength(LengthDefinition(tree))

\* a list node with an empty children array
EmptyList(n) == n.type = "list" /\ n.hasChildren /\ n.children = <<>>

\* C21 (list pruning): neither sliceMarkdown() nor slice() emits a list node
\* with an empty children array, as the root of the result or nested inside
\* it, for any input tree, range and options.
C21_ListPruning ==
  /\ op = "slice" => \A n \in objectsIn(ret.node) : ~EmptyList(n)
  /\ (op = "sliceMarkdown" /\ ret.kind = "return") =>
       \A n \in objectsOf(ret.res) : ~EmptyList(n)

\* sliceMarkdown() returned after it resolved the tree: the tree has a
\* nonzero length and the range is valid and not empty
MdEnv ==
  LET treeLength == TreeLen(tree)
      normalizedEnd == IF args.end.given THEN args.end ELSE MdEndAt(Num(treeLength))
  IN  [start |-> args.start.n,
       effectiveEnd |-> effectiveEndOf(normalizedEnd, treeLength),
       options |-> resolvedOptions(args.options)]
MdResolved ==
  /\ op = "sliceMarkdown"
  /\ ret.kind = "return"
  /\ TreeLen(tree) > 0
  /\ args.start.n < MdEnv.effectiveEnd

\* the offset of a node of the tree: the lengths of the leaves before it
StartOf(n) == SumOfValueLengths(LeavesBefore(n.oid))
EndOf(n) == StartOf(n) + TreeLen(n)
Overlaps(n) == EndOf(n) > MdEnv.start /\ StartOf(n) < MdEnv.effectiveEnd

\* what the resolution of a node of the tree yields under the call's range
\* and options
Resolve(n) ==
  mdSlice(n, MdEnv, [position |-> StartOf(n), cache |-> EmptyCache, visits |-> <<>>]).res
YieldsNothing(n) == Resolve(n).kind = "null" \/ Resolve(n).nodes = <<>>
ChildrenYieldNothing(n) ==
  \A i \in 1..Len(n.children) : YieldsNothing(n.children[i])

\* the containers the statement names
NonListContainer(n) == n.hasChildren /\ n.type \in PARENT_TYPES \cup FORMATTING_TYPES

\* a formatting wrapper that the range cuts, under a behavior that removes
\* or unwraps a cut wrapper
CutFormattingRemoved(n) ==
  /\ n.type \in FORMATTING_TYPES
  /\ (StartOf(n) < MdEnv.start \/ EndOf(n) > MdEnv.effectiveEnd)
  /\ MdEnv.options.behavior[n.type] \in {"exclude", "trim"}

EmptyContainerResult(n) ==
  IF MdEnv.options.preserveBlocks THEN ResNode(AssignChildren(n, <<>>)) ELSE ResNull

TextNoValue(id) == Atom("text", id, "")

\* Trees that hold text nodes without a value
MalformedTreesWith(v) ==
  { Para(1, <<Text(2, v), TextNoValue(3), Text(4, <<"a">>)>>),
    Para(1, <<TextNoValue(2), Text(3, v), Text(4, <<"a", " ">>)>>),
    Para(1, <<Parent("emphasis", 2, <<Text(3, v)>>, ""), TextNoValue(4), TextNoValue(5),
              Text(6, <<"a">>)>>),
    Para(1, <<Parent("emphasis", 2, <<Text(3, v)>>, ""), TextNoValue(4), TextNoValue(5)>>),
    Para(1, <<Text(2, v), Parent("emphasis", 3, <<TextNoValue(4)>>, ""),
              Text(5, <<" ", "a">>)>>),
    Parent("root", 1, <<Para(2, <<Text(3, v), TextNoValue(4)>>),
                        Para(5, <<Text(6, <<"a", "a">>)>>)>>, "") }

MalformedTrees ==
  UNION {MalformedTreesWith(v) : v \in Values} \cup {TextNoValue(1)}

MalformedInit ==
  /\ tree \in MalformedTrees
  /\ op = "init"
  /\ args = <<>>
  /\ ret = <<>>
  /\ lengthCache = EmptyCache
  /\ NODE_LENGTH_CACHE = EmptyCache

MalformedNext ==
  \/ CallSlice
  \/ CallLength

MalformedSpec == MalformedInit /\ [][MalformedNext]_vars

\* the characters that occur in a text
CharsOf(s) == {s[i] : i \in 1..Len(s)}

\* C23 (malformed leaves in slice()): a text node that lacks a value field is
\* treated as zero-length; it contributes no characters to the leaf text of
\* the result, and slicedLength <= originalLength holds, with mergeAdjacent
\* on or off.
C23_MalformedLeaves ==
  /\ op = "length" => ret = Len(LeafText(tree))
  /\ op = "slice" =>
       /\ args.start >= 0 => ret.info.originalLength = Len(LeafText(tree))
       /\ CharsOf(LeafText(ret.node)) \subseteq CharsOf(LeafText(tree))
       /\ ret.info.slicedLength <= ret.info.originalLength

\* the node types that slice() or sliceMarkdown() name
RecognisedTypes ==
  {"text", "inlineCode", "code", "list"}
  \cup PARENT_TYPES \cup FORMATTING_TYPES \cup IMAGE_TYPES \cup ATOMIC_TYPES
  \cup {"emphasis", "strong", "delete", "underline"}
  \cup {"link", "linkReference", "image", "imageReference"}
  \cup {"paragraph", "heading", "blockquote", "listItem"}
UnknownNode(n) == n.type \notin RecognisedTypes /\ ~IsNull(n)

\* slice() went on to resolve the tree: the range is valid and not empty
SlCtx ==
  [start |-> args.start, end |-> ret.boundaries.end, config |-> resolvedConfig(args.config)]
SlResolved ==
  /\ op = "slice"
  /\ ~IsNull(tree)
  /\ args.start >= 0
  /\ args.start < ret.boundaries.end
SlOverlaps(n) == EndOf(n) > SlCtx.start /\ StartOf(n) < SlCtx.end

\* what slice() yields for a node of the tree under the call's range and
\* config
SlResolve(n) ==
  sliceNode(n, StartOf(n), SlCtx,
            [hasPartialNodes |-> FALSE, modifiedNodeTypes |-> <<>>, cache |-> EmptyCache,
             visits |-> <<>>]).res

\* a node as it is, whichever object holds it
Verbatim(n) == [n EXCEPT !.oid = 0]

\* the result is a container of the type and attributes of n whose leaf text
\* is what the children of n yield, in order
RECURSIVE YieldText(_, _)
YieldText(yields, i) ==
  IF i > Len(yields) THEN <<>>
  ELSE ResText(yields[i]) \o YieldText(yields, i + 1)
RebuiltFrom(res, n, yields) ==
  \/ res = ResNull
  \/ /\ res.kind = "node"
     /\ res.nodes[1].type = n.type /\ res.nodes[1].attr = n.attr
     /\ res.nodes[1].hasChildren
     /\ ResText(res) = YieldText(yields, 1)

\* C24 (unknown node types): in slice() and in sliceMarkdown() a node of
\* unrecognised type never causes an error; with children it is rebuilt like
\* a generic container, and without children it is included verbatim in the
\* result whenever its span overlaps the range.
C24_UnknownTypes ==
  /\ (op = "sliceMarkdown" /\ ~IsNull(tree) /\ ValidRange(args)) => ret.kind = "return"
  /\ MdResolved =>
       /\ \A n \in objectsIn(tree) :
            (UnknownNode(n) /\ Overlaps(n)) =>
              IF n.hasChildren THEN RebuiltFrom(Resolve(n), n, [i \in 1..Len(n.children) |-> Resolve(n.children[i])])
              ELSE Resolve(n) = ResNode(n)
       /\ \A i \in 1..Len(tree.children) :
            LET n == tree.children[i]
            IN  ( /\ UnknownNode(n) /\ ~n.hasChildren /\ Overlaps(n)
                  /\ ret.res.kind = "node" )
                => \E j \in 1..Len(ret.res.nodes[1].children) :
                     Verbatim(ret.res.nodes[1].children[j]) = Verbatim(n)
  /\ SlResolved =>
       /\ \A n \in objectsIn(tree) :
            (UnknownNode(n) /\ SlOverlaps(n)) =>
              IF n.hasChildren THEN RebuiltFrom(SlResolve(n), n,
                               [i \in 1..Len(n.children) |-> SlResolve(n.children[i])])
              ELSE SlResolve(n) = ResNode(Verbatim(n))
       /\ \A i \in 1..Len(tree.children) :
            LET n == tree.children[i]
            IN  ( /\ UnknownNode(n) /\ ~n.hasChildren /\ SlOverlaps(n)
                  /\ ~IsNull(ret.node) )
                => \E j \in 1..Len(ret.node.children) :
                     Verbatim(ret.node.children[j]) = Verbatim(n)

(* ------------------- several calls, one pair of caches ---------------- *)

\* The trees the calls share, and the arguments of the calls
CacheTrees ==
  { Para(1, <<Text(2, <<"a", " ">>), Parent("emphasis", 3, <<Text(4, <<"a", "a">>)>>, ""),
              Leaf("inlineCode", 5, <<"a">>, "")>>),
    Parent("root", 1, <<Parent("heading", 2, <<Text(3, <<"a", " ">>)>>, "depth"),
                        Para(4, <<Text(5, <<" ", "a">>), Atom("break", 6, "")>>),
                        Leaf("code", 7, <<"a">>, "js")>>, "") }
CachePositions(t) == 0..TreeLen(t)
CacheConfigs == {EmptyConfig, presets.textOnly, presets.conservative}
CacheOptions == {Options(NoBehavior, Undef, Undef),
                 Options(Behavior("exclude", "exclude", "trim", Undef), "false", "true")}

CacheInit ==
  /\ tree \in CacheTrees
  /\ op = "init"
  /\ args = <<>>
  /\ ret = <<>>
  /\ lengthCache = EmptyCache
  /\ NODE_LENGTH_CACHE = EmptyCache

\* slice(), called after any number of earlier calls
CacheSlice ==
  /\ \E start \in CachePositions(tree),
        e \in {NoEnd} \cup {EndAt(x) : x \in CachePositions(tree)},
        config \in CacheConfigs :
       LET r == slice(tree, start, e, config, lengthCache)
       IN  /\ op' = "slice"
           /\ args' = [start |-> start, end |-> e, config |-> config]
           /\ ret' = r.result
           /\ lengthCache' = r.cache
           /\ tree' = heapAfter(tree, objectsIn(r.result.node))
  /\ UNCHANGED NODE_LENGTH_CACHE

\* length(), called after any number of earlier calls
CacheLength ==
  /\ LET r == length(tree, lengthCache)
     IN  /\ op' = "length"
         /\ args' = <<>>
         /\ ret' = r.result
         /\ lengthCache' = r.cache
  /\ UNCHANGED <<tree, NODE_LENGTH_CACHE>>

\* sliceMarkdown(), called after any number of earlier calls
CacheSliceMarkdown ==
  /\ \E start \in {Num(x) : x \in CachePositions(tree)},
        e \in {MdNoEnd} \cup {MdEndAt(Num(x)) : x \in CachePositions(tree)},
        options \in CacheOptions :
       LET r == sliceMarkdown(tree, start, e, options, NODE_LENGTH_CACHE)
       IN  /\ op' = "sliceMarkdown"
           /\ args' = [start |-> start, end |-> e, options |-> options]
           /\ ret' = r.outcome
           /\ NODE_LENGTH_CACHE' = r.cache
           /\ tree' = heapAfter(tree, objectsOf(r.outcome.res))
  /\ UNCHANGED lengthCache

CacheNext ==
  \/ CacheSlice
  \/ CacheLength
  \/ CacheSliceMarkdown

CacheSpec == CacheInit /\ [][CacheNext]_vars

\* every entry of a cache is the length of the object of the tree it is
\* keyed by
TrueLengths(cache) ==
  \A k \in DOMAIN cache : k \in oidsOf(tree) /\ cache[k] = TreeLen(ObjectOf(k))

\* the entries of a cache are kept by a step
EntriesKept(before, after) ==
  \A k \in DOMAIN before : k \in DOMAIN after /\ after[k] = before[k]

\* the result of the last call is the result of the same call on empty caches
SameAsAlone ==
  /\ op = "slice" =>
       ret = slice(tree, args.start, args.end, args.config, EmptyCache).result
  /\ op = "length" => ret = length(tree, EmptyCache).result
  /\ op = "sliceMarkdown" =>
       ret = sliceMarkdown(tree, args.start, args.end, args.options, EmptyCache).outcome

\* C25 (shared length cache): over any sequence of slice(), sliceMarkdown()
\* and length() calls on a tree that is not mutated, every entry of the two
\* module-level length caches is the true length of its node, an entry once
\* written is never changed or removed, and every call returns what it
\* returns when run alone on empty caches.
C25_SharedCache ==
  /\ [](TrueLengths(lengthCache) /\ TrueLengths(NODE_LENGTH_CACHE) /\ SameAsAlone)
  /\ [][ /\ tree' = tree
         /\ EntriesKept(lengthCache, lengthCache')
         /\ EntriesKept(NODE_LENGTH_CACHE, NODE_LENGTH_CACHE') ]_vars

\* a slice() call that cut the tree, made when both caches hold entries for
\* the nodes of the tree
C25_Witness ==
  /\ op = "slice"
  /\ ret.info.hasPartialNodes
  /\ ~IsNull(ret.node)
  /\ DOMAIN NODE_LENGTH_CACHE = oidsOf(tree)
  /\ Cardinality(DOMAIN lengthCache) >= 3

\* the part of the value of a leaf of the tree that lies in the range of the
\* slice() call
InRange(n) ==
  Substring(n.value, Max(0, SlCtx.start - StartOf(n)),
            Max(0, Min(Len(n.value), SlCtx.end - StartOf(n))))

\* that part with whitespace removed at the edges where the range cut the
\* leaf: the start when the leaf starts before the range, the end when it
\* ends after it
TrimmedAtCuts(n) ==
  LET a == IF StartOf(n) < SlCtx.start THEN trimStart(InRange(n)) ELSE InRange(n)
  IN  IF EndOf(n) > SlCtx.end THEN trimEnd(a) ELSE a

\* a leaf that the range cuts, under a policy that truncates it
TruncatedLeaf(n) ==
  /\ truthyValue(n)
  /\ SlOverlaps(n)
  /\ (StartOf(n) < SlCtx.start \/ EndOf(n) > SlCtx.end)
  /\ leafBehavior(SlCtx.config, n.type) \notin {"include-full", "exclude-full"}

\* a leaf value as the result holds it: nothing for an empty value
ValueResult(n, v) == IF v = <<>> THEN ResNull ELSE ResNode(SpreadValue(n, v))

\* the value each child of the root contributes when every child is a leaf
RECURSIVE TrimmedTextFrom(_, _)
TrimmedTextFrom(kids, i) ==
  IF i > Len(kids) THEN <<>>
  ELSE (IF ~SlOverlaps(kids[i]) \/ ~kids[i].hasValue THEN <<>>
        ELSE IF isCode(kids[i]) \/ isInlineCode(kids[i]) THEN InRange(kids[i])
        ELSE TrimmedAtCuts(kids[i]))
       \o TrimmedTextFrom(kids, i + 1)

\* C26 (boundary trimming in slice()): with textHandling.boundaries = 'trim',
\* whitespace is removed from a truncated non-code leaf only at an edge where
\* the range cut the leaf, never at an edge that is the leaf's own start or
\* end; code and inlineCode values are never trimmed or normalised.
C26_BoundaryTrimming ==
  SlResolved =>
    /\ \A n \in objectsIn(tree) :
         TruncatedLeaf(n) =>
           IF isCode(n) \/ isInlineCode(n)
           THEN SlResolve(n) = ValueResult(n, InRange(n))
           ELSE SlCtx.config.textHandling.boundaries = "trim" =>
                  SlResolve(n) = ValueResult(n, TrimmedAtCuts(n))
    /\ ( /\ SlCtx.config.textHandling.boundaries = "trim"
         /\ TruncatePolicies(args.config)
         /\ ~IsNull(ret.node)
         /\ tree.hasChildren
         /\ \A i \in 1..Len(tree.children) : ~tree.children[i].hasChildren )
       => LeafText(ret.node) = TrimmedTextFrom(tree.children, 1)

\* the config of the call with mergeAdjacent switched off and everything
\* else as the call resolves it
WithoutMerge(config) ==
  Config(config.partialNodes,
         TextHandling(resolvedConfig(config).textHandling.boundaries, "false"))

\* runs of consecutive text nodes of a sequence replaced by one text node
\* each: the first node of the run with the values of the run concatenated
RECURSIVE MergeRuns(_)
MergeRuns(nodes) ==
  IF Len(nodes) < 2 THEN nodes
  ELSE IF isText(nodes[1]) /\ isText(nodes[2])
       THEN MergeRuns(<<[nodes[1] EXCEPT !.value = nodes[1].value \o nodes[2].value]>>
                      \o SubSeq(nodes, 3, Len(nodes)))
       ELSE <<nodes[1]>> \o MergeRuns(Tail(nodes))

\* the merge done inside every container of a node, and in no other place
RECURSIVE MergedInContainers(_)
MergedInContainers(n) ==
  IF ~n.hasChildren THEN n
  ELSE [n EXCEPT !.children =
          MergeRuns([i \in 1..Len(n.children) |-> MergedInContainers(n.children[i])])]

\* no container of a node has two consecutive children of type text
RECURSIVE NoAdjacentText(_)
NoAdjacentText(n) ==
  /\ \A i \in 1..(Len(n.children) - 1) :
       ~(isText(n.children[i]) /\ isText(n.children[i + 1]))
  /\ \A i \in 1..Len(n.children) : NoAdjacentText(n.children[i])

MergeOn == op = "slice" /\ resolvedConfig(args.config).textHandling.mergeAdjacent = "true"

\* C27 (adjacent-text merge in slice()): with mergeAdjacent true no container
\* in the result has two consecutive children of type text; each merged text
\* node holds the in-order concatenation of the values of the text nodes it
\* replaces, and text nodes in different containers are never merged: the
\* result is the result without merging, with the runs of text nodes of each
\* container joined.
C27_AdjacentTextMerge ==
  MergeOn =>
    /\ NoAdjacentText(ret.node)
    /\ ret.node =
         MergedInContainers(
           slice(tree, args.start, args.end, WithoutMerge(args.config), EmptyCache).result.node)

\* a cut formatting wrapper is stripped and its text joins the text run
\* before it in one text leaf, while the text inside another container stays
\* apart
C27_Witness ==
  /\ MergeOn
  /\ ret.info.hasPartialNodes
  /\ tree.type = "paragraph" /\ Len(tree.children) = 3
  /\ tree.children[2].type = "emphasis"
  /\ ~IsNull(ret.node)
  /\ Len(ret.node.children) = 1
  /\ isText(ret.node.children[1])
  /\ Len(ret.node.children[1].value) = 3
  /\ ret.node.children[1].value =
       Substring(LeafText(tree), args.start, ret.boundaries.end)

\* the nodes the slice() call resolved, with the start offset used for each
SlVisits ==
  sliceNode(tree, 0, SlCtx,
            [hasPartialNodes |-> FALSE, modifiedNodeTypes |-> <<>>, cache |-> EmptyCache,
             visits |-> <<>>]).st.visits

\* the nodes the sliceMarkdown() call resolved, with the start offset used
\* for each and the position counter when its resolution returned
MdVisits ==
  mdSlice(tree, MdEnv, [position |-> 0, cache |-> EmptyCache, visits |-> <<>>]).st.visits

\* C28 (position tracking): in slice() and in sliceMarkdown(), the start
\* offset used for every node that is resolved is the sum of the original
\* lengths of the leaves that precede it in document order, whatever
\* happened to the nodes before it; in sliceMarkdown() the position counter
\* is the node's original end offset when its resolution returns.
C28_PositionTracking ==
  /\ SlResolved =>
       LET visits == SlVisits
       IN  \A v \in {visits[i] : i \in 1..Len(visits)} :
             /\ v.oid \in oidsOf(tree)
             /\ v.nodeStart = SumOfValueLengths(LeavesBefore(v.oid))
  /\ MdResolved =>
       LET visits == MdVisits
       IN  \A v \in {visits[i] : i \in 1..Len(visits)} :
             /\ v.oid \in oidsOf(tree)
             /\ v.nodeStart = SumOfValueLengths(LeavesBefore(v.oid))
             /\ v.position = v.nodeStart + TreeLen(ObjectOf(v.oid))

\* a sliceMarkdown() call on a nested tree whose range starts after the first
\* block: that block is dropped, and every node of the tree is still
\* resolved
C28_Witness ==
  /\ MdResolved
  /\ tree.type = "root"
  /\ Len(tree.children) = 3
  /\ args.start.n >= EndOf(tree.children[1])
  /\ EndOf(tree.children[1]) > 0
  /\ ret.res.kind = "node"
  /\ Len(ret.res.nodes[1].children) < 3
  /\ \E i \in 1..Len(MdVisits) :
       MdVisits[i].nodeStart > 0 /\ ObjectOf(MdVisits[i].oid) \notin {tree} \cup
         {tree.children[j] : j \in 1..3}

\* a descendant of the tree of length 0: a break, a thematicBreak, an image,
\* or a text, inlineCode or code leaf with an empty value
ZeroWidthLeaf(n) ==
  /\ n # tree
  /\ ~n.hasChildren
  /\ TreeLen(n) = 0
  /\ n.type \in {"break", "thematicBreak", "image", "text", "inlineCode", "code"}

\* a node is among the children of a result node, as it is
KeptAmong(n, parent) ==
  \E j \in 1..Len(parent.children) : Verbatim(parent.children[j]) = Verbatim(n)

NoDuplicates(seq) ==
  \A i, j \in 1..Len(seq) : seq[i] = seq[j] => i = j

\* C30 (partial-node metadata in slice()): in every SliceResult,
\* info.hasPartialNodes is true exactly when info.modifiedNodeTypes is not
\* empty; both are false/empty in every early return (null tree, start < 0,
\* start >= effective end) and whenever the effective range is
\* [0, length(tree)); hasPartialNodes is true whenever the value of a leaf was
\* truncated, and the type of that leaf is listed in modifiedNodeTypes, which
\* holds no type twice.
C30_PartialMetadata ==
  op = "slice" =>
    /\ ret.info.hasPartialNodes <=> ret.info.modifiedNodeTypes # <<>>
    /\ NoDuplicates(ret.info.modifiedNodeTypes)
    /\ (IsNull(tree) \/ args.start < 0 \/ args.start >= ret.boundaries.end) =>
         (~ret.info.hasPartialNodes /\ ret.info.modifiedNodeTypes = <<>>)
    /\ (~IsNull(tree) /\ args.start = 0 /\ ret.boundaries.end = TreeLen(tree)) =>
         (~ret.info.hasPartialNodes /\ ret.info.modifiedNodeTypes = <<>>)
    /\ SlResolved =>
         LET visits == SlVisits
         IN  \A v \in {visits[i] : i \in 1..Len(visits)} :
               TruncatedLeaf(ObjectOf(v.oid)) =>
                 /\ ret.info.hasPartialNodes
                 /\ \E k \in 1..Len(ret.info.modifiedNodeTypes) :
                      ret.info.modifiedNodeTypes[k] = ObjectOf(v.oid).type

\* a slice() call that truncated two text leaves of one paragraph, one at
\* each end of the range
C30_Witness ==
  /\ SlResolved
  /\ tree.type = "paragraph" /\ Len(tree.children) = 2
  /\ TruncatedLeaf(tree.children[1]) /\ TruncatedLeaf(tree.children[2])
  /\ isText(tree.children[1]) /\ isText(tree.children[2])
  /\ ~IsNull(ret.node)
  /\ ret.info.hasPartialNodes
  /\ ret.info.modifiedNodeTypes = <<"paragraph", "text">>

====
